---- MODULE Spec2Model ----
(***************************************************************************)
(* The task/future scheduler of wee-slack (src/slack.py): the registries   *)
(* active_tasks and active_responses, task_runner, create_task,            *)
(* weechat_task_cb, and the coroutines sleep, hook_process_hashtable and   *)
(* http_request that run on top of it.                                     *)
(*                                                                         *)
(* A handler of the host (a timer or process callback, a create_task call  *)
(* made from host code) is one action: it runs task_runner to the point    *)
(* where control returns to the host, nested create_task calls included.   *)
(***************************************************************************)
EXTENDS Integers, Sequences, FiniteSets, TLC

VARIABLES
    active_tasks,      \* future id -> id of the task suspended on it
    active_responses,  \* task id -> value of a task that finished unawaited
    tasks,             \* task id -> the Task object and its coroutine's frame
    hooks,             \* host side: future id -> the timer/process hook registered under it
    next_id,           \* the next fresh Future id (uuid4 never repeats)
    free_fds,          \* what available_file_descriptors() returns now
    served,            \* host side: what each process hook has delivered so far
    escaped,           \* exceptions that propagated out of a handler into the host
    uncaught_errors,   \* shared.uncaught_errors, the list /slack debug reads
    printed,           \* host side: the last command and what it printed to the core buffer
    conversation,      \* the fields of one SlackConversation
    buffers,           \* host side: the buffers created for the conversation, oldest first
    workspaces,        \* shared.workspaces: name -> the fields of a SlackWorkspace
    input              \* host side: the input line of the conversation's buffer and the cursor

vars == <<active_tasks, active_responses, tasks, hooks, next_id, free_fds,
          served, escaped, uncaught_errors, printed, conversation, buffers, workspaces,
          input>>

----------------------------------------------------------------------------
\* Bounds of the model.

\* host-level create_task calls of scripted coroutines in one run
MaxTop == 2

\* http_request calls started with max_retries in 0..MaxRetries
MaxRetries == 2
\* Future ids the request pipeline may use up before the host stops answering
MaxId == 7
\* tokens in an intermediate piece of process output
ChunkSize == 7
\* intermediate (return_code = -1) deliveries of one process
MaxPartial == 1

\* Program constants.
\* while available_file_descriptors() < 10
FdGate == 10
\* await sleep(10) at the gate
GateSleepMs == 10
\* await sleep(1000) before a retry
BackoffMs == 1000
\* max_retries: int = 5
DefaultMaxRetries == 5
\* if http_status == 429
TooManyRequests == 429
\* if http_status >= 400
ErrorStatus == 400

----------------------------------------------------------------------------
\* Values passed through send(): None, an int, the args of a timer callback,
\* the args of a process callback, a str.  One record shape for all of them.

V(kind, n, out, err) == [kind |-> kind, n |-> n, out |-> out, err |-> err]
None == V("None", 0, <<>>, <<>>)
IntVal(n) == V("int", n, <<>>, <<>>)
StrVal(s) == V("str", 0, s, <<>>)
\* weechat calls a timer callback with (data, remaining_calls)
TimerArgs == V("timer", 0, <<>>, <<>>)
\* weechat calls a process callback with (data, command, return_code, out, err)
ProcessArgs(rc, out, err) == V("process", rc, out, err)

\* Exceptions: HttpError(url, return_code, http_status, error) and the others.
Exc(type, rc, status, error) ==
    [type |-> type, return_code |-> rc, http_status |-> status, error |-> error]
NoExc == Exc("none", 0, 0, <<>>)
HttpError(rc, status, error) == Exc("HttpError", rc, status, error)

EmptyMap == [k \in {} |-> 0]
Pop(f, k) == [x \in (DOMAIN f) \ {k} |-> f[x]]

----------------------------------------------------------------------------
\* The coroutines the scheduler is exercised with.  A scripted coroutine is a
\* list of the things a coroutine can do to the scheduler: await a timer,
\* create a task, await a task it holds, return, raise.

Instr(op, prog, final, child) ==
    [op |-> op, prog |-> prog, final |-> final, child |-> child]
Sleep == Instr("sleep", "", FALSE, 0)
Spawn(prog, final) == Instr("spawn", prog, final, 0)
Await(k) == Instr("await", "", FALSE, k)
AwaitSibling(k) == Instr("await_sibling", "", FALSE, k)
ReturnArg == Instr("return_arg", "", FALSE, 0)
ReturnGot == Instr("return_got", "", FALSE, 0)
Raise == Instr("raise", "", FALSE, 0)
\* results = await gather(c1, ..., cN), the coroutines given by their programs
Gather(progs) ==
    [op |-> "gather", prog |-> "", final |-> FALSE, child |-> 0, progs |-> progs]

Programs ==
    [ ret      |-> << ReturnArg >>,
      slow     |-> << Sleep, ReturnArg >>,
      boom     |-> << Raise >>,
      slowboom |-> << Sleep, Raise >>,
      peek     |-> << AwaitSibling(1), ReturnGot >>,
      now      |-> << Spawn("ret", FALSE), Await(1), ReturnGot >>,
      race     |-> << Spawn("ret", FALSE), Sleep, Await(1), ReturnGot >>,
      wait     |-> << Spawn("slow", FALSE), Await(1), ReturnGot >>,
      twice    |-> << Spawn("ret", FALSE), Await(1), Await(1), ReturnGot >>,
      pair     |-> << Spawn("slow", FALSE), Spawn("slow", FALSE),
                      Await(2), Await(1), ReturnGot >>,
      finalkid |-> << Spawn("ret", TRUE), Sleep, Await(1), ReturnGot >>,
      finalwait|-> << Spawn("slow", TRUE), Await(1), ReturnGot >>,
      kidboom  |-> << Spawn("boom", FALSE), ReturnArg >>,
      waitboom |-> << Spawn("slowboom", FALSE), Await(1), ReturnGot >>,
      nest     |-> << Spawn("wait", FALSE), Await(1), ReturnGot >>,
      share    |-> << Spawn("slow", FALSE), Spawn("peek", FALSE),
                      Await(1), ReturnGot >>,
      crowd    |-> << Spawn("slow", FALSE), Spawn("peek", FALSE), Spawn("peek", FALSE),
                      ReturnArg >>,
      fan      |-> << Gather(<<"slow", "ret", "slow">>), ReturnArg >> ]

\* peek awaits a task of the coroutine that created it: it is never started by the host
TopPrograms == (DOMAIN Programs) \ {"peek"}

\* the argument create_task's k-th child coroutine is called with
ChildArg(arg, k) == 10 * arg + k

----------------------------------------------------------------------------
\* class Task(Future): id (the key in tasks), coroutine, final; and the
\* coroutine's frame: where it stands and what it holds.

\* A transport result: what the process prints and exits with (rc, out, err)
\* and, for the properties, what the text was built from: the status, the
\* seconds of the Retry-After header the 429 scan reaches (-1: none), the
\* body, and whether the text is a header block, a blank line and a body.
Result(rc, out, err, status, retry, body, framed) ==
    [ rc |-> rc, out |-> out, err |-> err,
      status |-> status, retry |-> retry, body |-> body, framed |-> framed ]
NoAnswer == Result(0, <<>>, <<>>, 0, -1, <<>>, FALSE)

\* The frame of a coroutine running http_request: where it is suspended and
\* the locals of http_request and of the hook_process_hashtable it awaits.
NoFrame ==
    [ at          |-> "start",  \* start, gate, process, backoff, ratelimit
      max_retries |-> 0,
      future      |-> 0,        \* hook_process_hashtable's FutureProcess
      stdout      |-> <<>>,
      stderr      |-> <<>>,
      return_code |-> -1,
      delivered   |-> <<>>,     \* history: the callback arguments this hook_process_hashtable call got
      attempts    |-> <<>>,     \* history: max_retries at each weechat.hook_process_hashtable call
      slept       |-> 0,        \* history: the delay of the last sleep before a retry
      answer      |-> NoAnswer, \* history: what the transport answered the last finished attempt
      failures    |-> 0 ]       \* history: the attempts the transport failed

NewTask(coro, prog, arg, final, parent) ==
    [ coro     |-> coro,       \* "script" or "http"
      prog     |-> prog,
      arg      |-> arg,
      final    |-> final,
      parent   |-> parent,     \* the task whose coroutine called create_task, 0: the host
      pc       |-> 1,
      stage    |-> "start",    \* (conversation coroutines) the await it is suspended in
      status   |-> "created",  \* created, running, suspended, returned, raised
      children |-> <<>>,       \* the Task objects it created, in order
      waiting  |-> 0,          \* the id of the Future it last yielded
      last     |-> None,       \* the value it was last resumed with
      got      |-> <<>>,       \* history (scripted): every <<future id, value>> it was resumed with
      raced    |-> <<>>,       \* history: which entries of got came out of active_responses
      result   |-> None,       \* StopIteration.value
      exc      |-> NoExc,      \* the exception its coroutine ended with
      fate     |-> <<>>,       \* history: what task_runner did with its return value
      awaited  |-> 0,          \* history: how many times it was yielded as a Future
      started  |-> [done |-> FALSE, status |-> "created", waiting |-> 0,
                    registered |-> FALSE],  \* history: see Started
      refused  |-> FALSE,      \* history: task_runner found its id in active_responses when it returned
      clashed  |-> <<>>,       \* history: its yields of a Future whose id was in active_tasks
      gathering|-> FALSE,      \* it is inside gather, awaiting its tasks
      gathered |-> <<>>,       \* the list gather builds and yields
      frame    |-> NoFrame ]   \* the locals of http_request / hook_process_hashtable

\* The program state the operators below transform.
State ==
    [ active_tasks     |-> active_tasks,
      active_responses |-> active_responses,
      tasks            |-> tasks,
      hooks            |-> hooks,
      next_id          |-> next_id,
      free_fds         |-> free_fds,
      served           |-> served,
      escaped          |-> escaped,
      uncaught_errors  |-> uncaught_errors,
      printed          |-> printed,
      conversation     |-> conversation,
      buffers          |-> buffers,
      workspaces       |-> workspaces,
      input            |-> input ]

Becomes(s) ==
    /\ active_tasks' = s.active_tasks
    /\ active_responses' = s.active_responses
    /\ tasks' = s.tasks
    /\ hooks' = s.hooks
    /\ next_id' = s.next_id
    /\ free_fds' = s.free_fds
    /\ served' = s.served
    /\ escaped' = s.escaped
    /\ uncaught_errors' = s.uncaught_errors
    /\ printed' = s.printed
    /\ conversation' = s.conversation
    /\ buffers' = s.buffers
    /\ workspaces' = s.workspaces
    /\ input' = s.input

\* What a command left in the core buffer: its arguments, the lines it
\* printed with weechat.prnt / print_error, and whether it raised.
Line(kind, id, n) == [kind |-> kind, id |-> id, n |-> n]
Output(args, lines, raised) == [args |-> args, lines |-> lines, raised |-> raised]
NoCommand == Output(<<>>, <<>>, FALSE)

\* the input line of a buffer: its text and input_pos
InputLine(value, pos) == [value |-> value, pos |-> pos]

\* SlackConversation.__init__: no buffer, nothing loading, no history.  Its
\* type decides whether name() has to load the members.
SlackConversation(type) ==
    [ type            |-> type,   \* "channel" or "mpim"
      _members        |-> FALSE,  \* whether _members is loaded (not None)
      _messages       |-> <<>>,
      buffer_pointer  |-> 0,      \* "": no buffer
      is_loading      |-> FALSE,
      history_filled  |-> FALSE,
      history_pending |-> FALSE,
      nicklist_needs_refresh |-> TRUE,
      fetching        |-> {},     \* history: the tasks inside fetch_conversations_history
      with_buffer     |-> {},     \* history: the fill_history tasks that began to fetch with a buffer open
      skipped         |-> {},     \* history: the fill_history tasks that returned at the guard
      printing        |-> {},     \* history: the tasks that printed a message
      message_hashes  |-> [dict |-> <<>>, _inverse_map |-> <<>>],
      completion_context |-> "NO_COMPLETION",
      completion_values  |-> <<>>,
      completion_index   |-> 0,
      cancelled       |-> {},     \* history: the tasks in the user search when the context was reset
      completion_read |-> [reads |-> FALSE, index |-> 0, len |-> 0] ]
                                  \* history: the last completion_values[completion_index] read

\* What coroutine.send() does to its caller: the coroutine yields a Future,
\* stops (StopIteration) with a value, or raises.
Yields(s, task, future) ==
    [ s |-> [s EXCEPT !.tasks[task].status = "suspended",
                      !.tasks[task].waiting = future],
      kind |-> "yield", future |-> future, value |-> None, exc |-> NoExc ]
Stops(s, task, value) ==
    [ s |-> [s EXCEPT !.tasks[task].status = "returned",
                      !.tasks[task].result = value],
      kind |-> "stop", future |-> 0, value |-> value, exc |-> NoExc ]
Raises(s, task, exc) ==
    [ s |-> [s EXCEPT !.tasks[task].status = "raised",
                      !.tasks[task].exc = exc],
      kind |-> "raise", future |-> 0, value |-> None, exc |-> exc ]

\* What a call of task_runner does to its caller: it returns or raises.
Returned(s) == [s |-> s, raised |-> FALSE, exc |-> NoExc]
Propagated(s, exc) == [s |-> s, raised |-> TRUE, exc |-> exc]

Hook(kind, ms) == [kind |-> kind, ms |-> ms]

\* A fresh Future: str(uuid4()).
Future(s) == s.next_id

\* an id generator that gives the same id again
Allocated_again(s) == s

Allocated(s) == [s EXCEPT !.next_id = @ + 1]

Coroutine(coro, prog, arg, parent) ==
    [coro |-> coro, prog |-> prog, arg |-> arg, parent |-> parent]

----------------------------------------------------------------------------
\* The scheduler.

RECURSIVE task_runner(_, _, _)
RECURSIVE coroutine_send(_, _, _)
RECURSIVE script_run(_, _)

\* task_runner_yield without the check of active_responses: the task is
\* registered although the awaited task has already finished
task_runner_yield_unchecked(s, task, future) ==
    IF future \in DOMAIN s.active_tasks
    THEN Propagated(s, Exc("Exception", 0, 0, <<"future.id in active_tasks">>))
    ELSE Returned([s EXCEPT !.active_tasks = @ @@ (future :> task)])

\* task_runner_yield with active_responses.pop(future.id) not assigned to
\* response: the task is resumed with the value it was resumed with before
task_runner_yield_stale(s, task, future) ==
    IF future \in DOMAIN s.active_responses
    THEN LET s1 == [s EXCEPT !.active_responses = Pop(@, future),
                             !.tasks[task].raced = Append(@, Len(s.tasks[task].got) + 1)]
         IN  task_runner(s1, task, s.tasks[task].last)
    ELSE IF future \in DOMAIN s.active_tasks
    THEN Propagated(s, Exc("Exception", 0, 0, <<"future.id in active_tasks">>))
    ELSE Returned([s EXCEPT !.active_tasks = @ @@ (future :> task)])

\* task_runner_yield reading active_responses[future.id] without removing it
task_runner_yield_reads(s, task, future) ==
    IF future \in DOMAIN s.active_responses
    THEN LET response == s.active_responses[future]
             s1 == [s EXCEPT !.tasks[task].raced = Append(@, Len(s.tasks[task].got) + 1)]
         IN  task_runner(s1, task, response)
    ELSE IF future \in DOMAIN s.active_tasks
    THEN Propagated(s, Exc("Exception", 0, 0, <<"future.id in active_tasks">>))
    ELSE Returned([s EXCEPT !.active_tasks = @ @@ (future :> task)])

\* history: a task yielded a Future whose id is a key of active_tasks, with
\* the registries as they were then
Clash(s, future) ==
    [ future |-> future,
      active_tasks |-> s.active_tasks,
      active_responses |-> s.active_responses ]

\* task_runner_yield registering the task under an id that is taken
task_runner_yield_overwrites(s, task, future) ==
    IF future \in DOMAIN s.active_responses
    THEN LET response == s.active_responses[future]
             s1 == [s EXCEPT !.active_responses = Pop(@, future),
                             !.tasks[task].raced = Append(@, Len(s.tasks[task].got) + 1)]
         IN  task_runner(s1, task, response)
    ELSE IF future \in DOMAIN s.active_tasks
    THEN Returned([s EXCEPT !.active_tasks = [@ EXCEPT ![future] = task],
                            !.tasks[task].clashed = Append(@, Clash(s, future))])
    ELSE Returned([s EXCEPT !.active_tasks = @ @@ (future :> task)])

\* task_runner, the coroutine yielded `future`
task_runner_yield(s, task, future) ==
    IF future \in DOMAIN s.active_responses
    THEN LET response == s.active_responses[future]
             s1 == [s EXCEPT !.active_responses = Pop(@, future),
                             !.tasks[task].raced = Append(@, Len(s.tasks[task].got) + 1)]
         IN  task_runner(s1, task, response)
    ELSE IF future \in DOMAIN s.active_tasks
    THEN Propagated([s EXCEPT !.tasks[task].clashed = Append(@, Clash(s, future))],
                    Exc("Exception", 0, 0, <<"future.id in active_tasks">>))
    ELSE Returned([s EXCEPT !.active_tasks = @ @@ (future :> task)])

\* task_runner_stop storing the value of a non-final task before it looks for
\* a waiting task
task_runner_stop_keeps(s, task, value) ==
    LET kept == IF s.tasks[task].final THEN s
                ELSE [s EXCEPT !.active_responses = @ @@ (task :> value),
                               !.tasks[task].fate = Append(@, "stored")]
    IN  IF task \in DOMAIN kept.active_tasks
        THEN task_runner([kept EXCEPT !.active_tasks = Pop(@, task),
                                      !.tasks[task].fate = Append(@, "delivered")],
                         kept.active_tasks[task], value)
        ELSE IF s.tasks[task].final
        THEN Returned([kept EXCEPT !.tasks[task].fate = Append(@, "discarded")])
        ELSE Returned(kept)

\* task_runner_stop reading active_tasks[task.id] without removing it
task_runner_stop_leaves(s, task, value) ==
    IF task \in DOMAIN s.active_tasks
    THEN LET waiter == s.active_tasks[task]
             s1 == [s EXCEPT !.tasks[task].fate = Append(@, "delivered")]
         IN  task_runner(s1, waiter, value)
    ELSE IF task \in DOMAIN s.active_responses
    THEN Propagated(s, Exc("Exception", 0, 0, <<"task.id in active_responses">>))
    ELSE IF ~ s.tasks[task].final
    THEN Returned([s EXCEPT !.active_responses = @ @@ (task :> value),
                            !.tasks[task].fate = Append(@, "stored")])
    ELSE Returned([s EXCEPT !.tasks[task].fate = Append(@, "discarded")])

\* task_runner_stop without the test of task.final
task_runner_stop_final_too(s, task, value) ==
    IF task \in DOMAIN s.active_tasks
    THEN LET waiter == s.active_tasks[task]
             s1 == [s EXCEPT !.active_tasks = Pop(@, task),
                             !.tasks[task].fate = Append(@, "delivered")]
         IN  task_runner(s1, waiter, value)
    ELSE IF task \in DOMAIN s.active_responses
    THEN Propagated(s, Exc("Exception", 0, 0, <<"task.id in active_responses">>))
    ELSE Returned([s EXCEPT !.active_responses = @ @@ (task :> value),
                            !.tasks[task].fate = Append(@, "stored")])

\* task_runner, the coroutine stopped: except StopIteration as e, value = e.value
task_runner_stop(s, task, value) ==
    IF task \in DOMAIN s.active_tasks
    THEN LET waiter == s.active_tasks[task]
             s1 == [s EXCEPT !.active_tasks = Pop(@, task),
                             !.tasks[task].fate = Append(@, "delivered")]
         IN  task_runner(s1, waiter, value)
    ELSE IF task \in DOMAIN s.active_responses
    THEN Propagated([s EXCEPT !.tasks[task].refused = TRUE],
                    Exc("Exception", 0, 0, <<"task.id in active_responses">>))
    ELSE IF ~ s.tasks[task].final
    THEN Returned([s EXCEPT !.active_responses = @ @@ (task :> value),
                            !.tasks[task].fate = Append(@, "stored")])
    ELSE Returned([s EXCEPT !.tasks[task].fate = Append(@, "discarded")])

\* task_runner after task.coroutine.send(response) came to r: the try body,
\* the except StopIteration clause, or any other exception going on
task_runner_sent(r, task) ==
    CASE r.kind = "yield" -> task_runner_yield(r.s, task, r.future)
      [] r.kind = "stop"  -> task_runner_stop(r.s, task, r.value)
      [] OTHER            -> Propagated(r.s, r.exc)

\* def task_runner(task, response): the while True loop is the recursion
task_runner(s, task, response) ==
    task_runner_sent(coroutine_send(s, task, response), task)

\* history: how create_task left the task when it returned normally
Started(s, task) ==
    LET tk == s.tasks[task]
    IN  [ done |-> TRUE, status |-> tk.status, waiting |-> tk.waiting,
          registered |-> /\ tk.waiting \in DOMAIN s.active_tasks
                         /\ s.active_tasks[tk.waiting] = task ]

\* create_task after task_runner(task, None) came back as r: an exception
\* goes on to the caller, otherwise the Task is returned.
\* history: how the task was left then
task_created(r, task) ==
    IF r.raised THEN r
    ELSE [r EXCEPT !.s.tasks[task].started = Started(r.s, task)]

\* create_task returning the Task without running its coroutine
create_task_lazy(s, coroutine, final) ==
    LET task == Future(s)
        s1 == [Allocated(s) EXCEPT !.tasks = @ @@
                 (task :> NewTask(coroutine.coro, coroutine.prog, coroutine.arg,
                                  final, coroutine.parent))]
    IN  Returned([s1 EXCEPT !.tasks[task].started = Started(s1, task)])

\* def create_task(coroutine, final): Task(coroutine, final); task_runner(task, None)
create_task(s, coroutine, final) ==
    LET task == Future(s)
        s1 == [Allocated(s) EXCEPT !.tasks = @ @@
                 (task :> NewTask(coroutine.coro, coroutine.prog, coroutine.arg,
                                  final, coroutine.parent))]
    IN  task_created(task_runner(s1, task, None), task)

\* weechat_task_cb taking the task out of active_tasks without running it
weechat_task_cb_drops(s, data, args) ==
    IF data \notin DOMAIN s.active_tasks
    THEN Propagated(s, Exc("KeyError", 0, 0, <<>>))
    ELSE Returned([s EXCEPT !.active_tasks = Pop(@, data)])

\* weechat_task_cb running the task without the arguments it was called with
weechat_task_cb_bare(s, data, args) ==
    IF data \notin DOMAIN s.active_tasks
    THEN Propagated(s, Exc("KeyError", 0, 0, <<>>))
    ELSE LET task == s.active_tasks[data]
         IN  task_runner([s EXCEPT !.active_tasks = Pop(@, data)], task, None)

\* def weechat_task_cb(data, *args)
weechat_task_cb(s, data, args) ==
    IF data \notin DOMAIN s.active_tasks
    THEN Propagated(s, Exc("KeyError", 0, 0, <<>>))
    ELSE LET task == s.active_tasks[data]
         IN  task_runner([s EXCEPT !.active_tasks = Pop(@, data)], task, args)

\* sleep awaiting a FutureTimer it hooked no timer for
sleep_unhooked(s, task, milliseconds) ==
    Yields(Allocated(s), task, Future(s))

\* async def sleep(milliseconds), up to its await: FutureTimer(), weechat.hook_timer
sleep(s, task, milliseconds) ==
    LET future == Future(s)
        s1 == [Allocated(s) EXCEPT !.hooks = @ @@ (future :> Hook("timer", milliseconds))]
    IN  Yields(s1, task, future)

----------------------------------------------------------------------------
\* gather(c1, ..., cN): it starts the N coroutines as tasks, suspends its
\* caller until all have completed, and yields their results in the original
\* positional order.  It runs in the frame of the coroutine that awaits it.

\* the coroutines of SlackConversation and of SlackMessage
ConversationPrograms ==
    {"open_buffer", "fill_history", "buffer_switched_to", "nicklist_update",
     "nicklist_add_user", "render", "complete_user_next"}
CoroOf(prog) == IF prog \in ConversationPrograms THEN "conversation" ELSE "script"

RECURSIVE gather_start(_, _, _, _)

\* gather after create_task of progs[k] came back as r
gather_started(r, task, progs, k) ==
    IF r.raised THEN r ELSE gather_start(r.s, task, progs, k + 1)

\* gather starts the coroutines progs[k..] as tasks, in order
gather_start(s, task, progs, k) ==
    IF k > Len(progs) THEN Returned(s)
    ELSE LET tk == s.tasks[task]
             child == Future(s)
             s1 == [s EXCEPT !.tasks[task].children = Append(@, child)]
         IN  gather_started(
                 create_task(s1, Coroutine(CoroOf(progs[k]), progs[k],
                                           ChildArg(tk.arg, Len(tk.children) + 1), task),
                             FALSE),
                 task, progs, k)

\* gather awaiting its tasks last to first
gather_awaits_backwards(n, k) == n - k + 1

\* the task gather awaits k-th, of its n tasks: the k-th
gather_awaits(n, k) == k

\* gather awaits the next of its n tasks, the last n tasks its caller holds
gather_await(s, task, n) ==
    LET tk == s.tasks[task]
        k == gather_awaits(n, Len(tk.gathered) + 1)
        awaited == tk.children[Len(tk.children) - n + k]
    IN  Yields([s EXCEPT !.tasks[awaited].awaited = @ + 1], task, awaited)

----------------------------------------------------------------------------
\* A scripted coroutine runs from its pc until it yields, returns or raises.

\* the coroutine after create_task(...) came back as r
script_spawned(r, task) ==
    IF r.raised THEN Raises(r.s, task, r.exc) ELSE script_run(r.s, task)

\* the coroutine after gather started its n tasks, which came back as r
script_gathering(r, task, n) ==
    IF r.raised THEN Raises(r.s, task, r.exc)
    ELSE gather_await([r.s EXCEPT !.tasks[task].gathering = TRUE], task, n)

script_run(s, task) ==
    LET tk == s.tasks[task]
        program == Programs[tk.prog]
    IN
    IF tk.pc > Len(program) THEN Stops(s, task, None)
    ELSE
    LET i == program[tk.pc]
        next == [s EXCEPT !.tasks[task].pc = @ + 1]
    IN
    CASE i.op = "sleep" -> sleep(next, task, 1)
      [] i.op = "spawn" ->
           LET child == Future(next)
               k == Len(tk.children) + 1
               s1 == [next EXCEPT !.tasks[task].children = Append(@, child)]
           IN  script_spawned(
                   create_task(s1, Coroutine("script", i.prog, ChildArg(tk.arg, k), task),
                               i.final),
                   task)
      [] i.op = "await" ->
           LET awaited == tk.children[i.child]
           IN  Yields([next EXCEPT !.tasks[awaited].awaited = @ + 1], task, awaited)
      [] i.op = "await_sibling" ->
           LET awaited == s.tasks[tk.parent].children[i.child]
           IN  Yields([next EXCEPT !.tasks[awaited].awaited = @ + 1], task, awaited)
      [] i.op = "gather" ->
           IF ~ tk.gathering
           THEN script_gathering(
                    gather_start([s EXCEPT !.tasks[task].gathered = <<>>], task, i.progs, 1),
                    task, Len(i.progs))
           ELSE LET s1 == [s EXCEPT !.tasks[task].gathered = Append(@, tk.last)]
                IN  IF Len(tk.gathered) + 1 < Len(i.progs)
                    THEN gather_await(s1, task, Len(i.progs))
                    ELSE script_run([s1 EXCEPT !.tasks[task].gathering = FALSE,
                                               !.tasks[task].pc = @ + 1], task)
      [] i.op = "return_arg" -> Stops(next, task, IntVal(tk.arg))
      [] i.op = "return_got" -> Stops(next, task, tk.last)
      [] OTHER -> Raises(next, task, Exc("Exception", 0, 0, <<"raise">>))

----------------------------------------------------------------------------
\* Text.  A str is a sequence of tokens: "\r", "\n", " ", ":", one token for
\* each decimal digit, and one token for any other run of characters.

CR == "\r"
LF == "\n"
CRLF == <<CR, LF>>
Digit == [d \in {"0", "1", "2", "3", "4", "5", "6", "7", "8", "9"} |->
            CASE d = "0" -> 0 [] d = "1" -> 1 [] d = "2" -> 2 [] d = "3" -> 3
              [] d = "4" -> 4 [] d = "5" -> 5 [] d = "6" -> 6 [] d = "7" -> 7
              [] d = "8" -> 8 [] OTHER -> 9]
Whitespace == {" ", "\t", CR, LF}

Min(S) == CHOOSE x \in S : \A y \in S : x <= y

\* str.index(sub), 0-based; -1 where Python raises ValueError
index(str, sub) ==
    LET found == {i \in 0..(Len(str) - Len(sub)) :
                    SubSeq(str, i + 1, i + Len(sub)) = sub}
    IN  IF found = {} THEN -1 ELSE Min(found)

\* str[start:]
slice_from(str, start) == SubSeq(str, start + 1, Len(str))

\* list[i] as Python indexes it, from 0 and from the end for i < 0;
\* ok = FALSE where it raises IndexError
subscript(list, i) ==
    LET j == IF i < 0 THEN i + Len(list) ELSE i
    IN  IF j >= 0 /\ j < Len(list)
        THEN [ok |-> TRUE, index |-> j + 1]
        ELSE [ok |-> FALSE, index |-> 0]

\* list[i:] as Python slices it: i counts from the end when negative and
\* is clamped to the list, so list[-0:] is the whole list
slice_last(list, i) ==
    LET j == IF i < 0 THEN (IF i + Len(list) < 0 THEN 0 ELSE i + Len(list))
             ELSE (IF i > Len(list) THEN Len(list) ELSE i)
    IN  SubSeq(list, j + 1, Len(list))

\* str.startswith(prefix)
startswith(string, prefix) ==
    /\ Len(prefix) <= Len(string)
    /\ SubSeq(string, 1, Len(prefix)) = prefix

\* str.removesuffix(suffix)
removesuffix(str, suffix) ==
    IF suffix # <<>> /\ Len(str) >= Len(suffix)
       /\ SubSeq(str, Len(str) - Len(suffix) + 1, Len(str)) = suffix
    THEN SubSeq(str, 1, Len(str) - Len(suffix))
    ELSE str

\* sep.join(words)
RECURSIVE join(_, _)
join(words, sep) ==
    IF words = <<>> THEN <<>>
    ELSE IF Len(words) = 1 THEN words[1]
    ELSE words[1] \o sep \o join(Tail(words), sep)

RECURSIVE split(_, _)
\* str.split(sep)
split(str, sep) ==
    LET i == index(str, sep)
    IN  IF i = -1 THEN <<str>>
        ELSE <<SubSeq(str, 1, i)>> \o split(slice_from(str, i + Len(sep)), sep)

\* str.split(sep, 1)
split_once(str, sep) ==
    LET i == index(str, sep)
    IN  IF i = -1 THEN <<str>>
        ELSE <<SubSeq(str, 1, i), slice_from(str, i + Len(sep))>>

RECURSIVE strip(_)
\* str.strip()
strip(str) ==
    IF str = <<>> THEN str
    ELSE IF Head(str) \in Whitespace THEN strip(Tail(str))
    ELSE IF str[Len(str)] \in Whitespace THEN strip(SubSeq(str, 1, Len(str) - 1))
    ELSE str

\* str.lower(), token by token
lower_token(tok) ==
    CASE tok = "Retry-After" -> "retry-after"
      [] tok = "RETRY-AFTER" -> "retry-after"
      [] tok = "X" -> "x"
      [] OTHER -> tok
lower(str) == [i \in 1..Len(str) |-> lower_token(str[i])]

RECURSIVE digits_value(_, _)
digits_value(str, acc) ==
    IF str = <<>> THEN acc
    ELSE digits_value(Tail(str), 10 * acc + Digit[Head(str)])

\* int(str) of a str of decimal digits; ok = FALSE where Python raises ValueError
int(str) ==
    IF str # <<>> /\ \A i \in 1..Len(str) : str[i] \in DOMAIN Digit
    THEN [ok |-> TRUE, n |-> digits_value(str, 0)]
    ELSE [ok |-> FALSE, n |-> 0]

----------------------------------------------------------------------------
\* async def http_request and async def hook_process_hashtable.  The coroutine
\* is suspended in one of five awaits (frame.at); each operator below runs the
\* code from one point to the next await, return or raise.

ValueError == Exc("ValueError", 0, 0, <<>>)
IndexError == Exc("IndexError", 0, 0, <<>>)

\* hook_process_gate letting the hook through with one descriptor less
hook_process_gate_lower(s, task) ==
    LET fr == s.tasks[task].frame
    IN  IF s.free_fds < FdGate - 1
        THEN sleep([s EXCEPT !.tasks[task].frame.at = "gate"], task, GateSleepMs)
        ELSE Yields([s EXCEPT !.hooks = @ @@ (fr.future :> Hook("process", 0)),
                              !.tasks[task].frame.at = "process",
                              !.tasks[task].frame.stdout = <<>>,
                              !.tasks[task].frame.stderr = <<>>,
                              !.tasks[task].frame.return_code = -1,
                              !.tasks[task].frame.delivered = <<>>,
                              !.tasks[task].frame.attempts = Append(@, fr.max_retries)],
                    task, fr.future)

\* hook_process_hashtable: while available_file_descriptors() < 10: await sleep(10);
\* then weechat.hook_process_hashtable(...) and the first await future
hook_process_gate(s, task) ==
    LET fr == s.tasks[task].frame
    IN  IF s.free_fds < FdGate
        THEN sleep([s EXCEPT !.tasks[task].frame.at = "gate"], task, GateSleepMs)
        ELSE Yields([s EXCEPT !.hooks = @ @@ (fr.future :> Hook("process", 0)),
                              !.tasks[task].frame.at = "process",
                              !.tasks[task].frame.stdout = <<>>,
                              !.tasks[task].frame.stderr = <<>>,
                              !.tasks[task].frame.return_code = -1,
                              !.tasks[task].frame.delivered = <<>>,
                              !.tasks[task].frame.attempts = Append(@, fr.max_retries)],
                    task, fr.future)

\* http_request(url, options, timeout, max_retries) up to its first await:
\* hook_process_hashtable's future = FutureProcess(), then the gate
http_request(s, task, max_retries) ==
    LET future == Future(s)
        s1 == [Allocated(s) EXCEPT !.tasks[task].frame.max_retries = max_retries,
                                   !.tasks[task].frame.future = future]
    IN  hook_process_gate(s1, task)

\* the scan for header in headers[1:] of a 429 response, from the i-th line on:
\* the outcome is "retry" with the seconds, "none" (the loop ends), or "error"
RECURSIVE retry_after(_, _)
retry_after(headers, i) ==
    IF i > Len(headers) THEN [kind |-> "none", seconds |-> 0]
    ELSE LET parts == split_once(headers[i], <<":">>)
         IN  IF Len(parts) < 2 THEN [kind |-> "error", seconds |-> 0]
             ELSE IF lower(parts[1]) = <<"retry-after">>
             THEN LET seconds == int(strip(parts[2]))
                  IN  IF seconds.ok THEN [kind |-> "retry", seconds |-> seconds.n]
                      ELSE [kind |-> "error", seconds |-> 0]
             ELSE retry_after(headers, i + 1)

\* the body cut after the first "\r\n" of the separator only
body_of_short(out, headers_end_index) == slice_from(out, headers_end_index + 2)

\* body = out[headers_end_index + 4:]
body_of(out, headers_end_index) == slice_from(out, headers_end_index + 4)

\* a status above 400 only
is_error_status_above(http_status) == http_status > ErrorStatus

\* if http_status >= 400
is_error_status(http_status) == http_status >= ErrorStatus

\* http_request from the return of hook_process_hashtable on, for a transport
\* success: the status line, the 429 branch, the body, the status check
http_response(s, task, return_code, out) ==
    LET headers_end_index == index(out, CRLF \o CRLF)
        headers == split(SubSeq(out, 1, headers_end_index), CRLF)
        words == split(headers[1], <<" ">>)
        http_status == int(words[2])
        retry == retry_after(headers, 2)
        body == body_of(out, headers_end_index)
    IN  IF headers_end_index = -1 THEN Raises(s, task, ValueError)
        ELSE IF Len(words) < 2 THEN Raises(s, task, IndexError)
        ELSE IF ~ http_status.ok THEN Raises(s, task, ValueError)
        ELSE IF http_status.n = TooManyRequests /\ retry.kind = "error"
        THEN Raises(s, task, ValueError)
        ELSE IF http_status.n = TooManyRequests /\ retry.kind = "retry"
        THEN sleep([s EXCEPT !.tasks[task].frame.at = "ratelimit",
                             !.tasks[task].frame.slept = retry.seconds * 1000],
                   task, retry.seconds * 1000)
        ELSE IF is_error_status(http_status.n)
        THEN Raises(s, task, HttpError(return_code, http_status.n, body))
        ELSE Stops(s, task, StrVal(body))

\* http_result retrying while max_retries >= 0
http_result_once_more(s, task, return_code, out, err) ==
    LET fr == s.tasks[task].frame
    IN  IF return_code # 0 \/ err # <<>>
        THEN IF fr.max_retries >= 0
             THEN sleep([s EXCEPT !.tasks[task].frame.at = "backoff",
                                  !.tasks[task].frame.slept = BackoffMs],
                        task, BackoffMs)
             ELSE Raises(s, task, HttpError(return_code, 0, err))
        ELSE http_response(s, task, return_code, out)

\* http_result taking only a non-zero return code for a failure
http_result_code_only(s, task, return_code, out, err) ==
    LET fr == s.tasks[task].frame
    IN  IF return_code # 0
        THEN IF fr.max_retries > 0
             THEN sleep([s EXCEPT !.tasks[task].frame.at = "backoff",
                                  !.tasks[task].frame.slept = BackoffMs],
                        task, BackoffMs)
             ELSE Raises(s, task, HttpError(return_code, 0, err))
        ELSE http_response(s, task, return_code, out)

\* http_request from the return of hook_process_hashtable on
http_result(s, task, return_code, out, err) ==
    LET fr == s.tasks[task].frame
    IN  IF return_code # 0 \/ err # <<>>
        THEN IF fr.max_retries > 0
             THEN sleep([s EXCEPT !.tasks[task].frame.at = "backoff",
                                  !.tasks[task].frame.slept = BackoffMs],
                        task, BackoffMs)
             ELSE Raises(s, task, HttpError(return_code, 0, err))
        ELSE http_response(s, task, return_code, out)

\* hook_process_delivery writing each chunk before what it has already
hook_process_delivery_prepends(s, task, response) ==
    LET fr == s.tasks[task].frame
        stdout == response.out \o fr.stdout
        stderr == response.err \o fr.stderr
        s1 == [s EXCEPT !.tasks[task].frame.stdout = stdout,
                        !.tasks[task].frame.stderr = stderr,
                        !.tasks[task].frame.return_code = response.n]
    IN  IF response.n = -1
        THEN Yields(s1, task, fr.future)
        ELSE http_result(s1, task, response.n, stdout, stderr)

\* hook_process_hashtable resumed by a delivery: _, return_code, out, err = await future
hook_process_delivery(s, task, response) ==
    LET fr == s.tasks[task].frame
        stdout == fr.stdout \o response.out
        stderr == fr.stderr \o response.err
        s1 == [s EXCEPT !.tasks[task].frame.stdout = stdout,
                        !.tasks[task].frame.stderr = stderr,
                        !.tasks[task].frame.return_code = response.n]
    IN  IF response.n = -1
        THEN Yields(s1, task, fr.future)
        ELSE http_result(s1, task, response.n, stdout, stderr)

\* the coroutine of create_task(http_request(url, options, timeout, max_retries))
\* resumed with `response`
http_run(s, task, response) ==
    LET tk == s.tasks[task]
        at == tk.frame.at
    IN  CASE at = "start"     -> http_request(s, task, tk.arg)
          [] at = "gate"      -> hook_process_gate(s, task)
          [] at = "process"   -> hook_process_delivery(s, task, response)
          [] at = "backoff"   -> http_request(s, task, tk.frame.max_retries - 1)
          [] OTHER            -> http_request(s, task, DefaultMaxRetries)

----------------------------------------------------------------------------
\* class SlackConversation: open_buffer, fill_history, buffer_switched_to,
\* nicklist_update.  tasks[task].stage is the await the coroutine is
\* suspended in; a fetch runs http_request in the coroutine's own frame.
\* The coroutine's code between two awaits is conversation_start and
\* conversation_after: each ends in the statement the coroutine goes on with,
\* which conversation_do executes.

RECURSIVE conversation_do(_, _)

\* def loading(self): is_loading = True ... finally: is_loading = False
loading_enter(s) == [s EXCEPT !.conversation.is_loading = TRUE]
loading_exit(s) == [s EXCEPT !.conversation.is_loading = FALSE]

\* the statement the coroutine goes on with
Statement(do, s, stage, progs, value, exc) ==
    [do |-> do, s |-> s, stage |-> stage, progs |-> progs, value |-> value, exc |-> exc]
\* await self._api.fetch_...: SlackApi.fetch(method, params)
AwaitFetch(s, stage) == Statement("fetch", s, stage, <<>>, None, NoExc)
\* await gather(...) of the coroutines progs
AwaitGather(s, stage, progs) == Statement("gather", s, stage, progs, None, NoExc)
\* return
Return(s) == Statement("return", s, "", <<>>, None, NoExc)
\* return value
ReturnValue(s, value) == Statement("return", s, "", <<>>, value, NoExc)
\* raise
RaiseExc(s, exc) == Statement("raise", s, "", <<>>, None, exc)
\* the coroutine is resumed inside http_request with `response`
ResumeFetch(s, response) == Statement("resume", s, "", <<>>, response, NoExc)
\* gather awaits the next of its tasks
AwaitNext(s, progs) == Statement("next", s, "", progs, None, NoExc)

\* message.render() of each message of the history
RECURSIVE Renders(_)
Renders(messages) ==
    IF messages = <<>> THEN <<>> ELSE <<"render">> \o Renders(Tail(messages))

\* the coroutines the gather the task is suspended in was called with
Gathered(s, task) ==
    IF s.tasks[task].prog = "buffer_switched_to" THEN <<"nicklist_update", "fill_history">>
    ELSE IF s.tasks[task].prog = "nicklist_update" THEN <<"nicklist_add_user">>
    ELSE Renders(s.conversation._messages)

\* open_buffer after name = await self.name(): buffer_new_props / buffer_new,
\* open_conversations[self.id] = self
open_buffer_new(s, task) ==
    LET pointer == Future(s)
    IN  Return([Allocated(s) EXCEPT !.buffers = Append(@, pointer),
                                    !.conversation.buffer_pointer = pointer])

\* fill_history setting history_pending only when the history has arrived
fill_history_guard_late(s, task) ==
    AwaitFetch([loading_enter(s) EXCEPT !.conversation.fetching = @ \cup {task},
                                        !.conversation.with_buffer =
                                            IF s.conversation.buffer_pointer # 0
                                            THEN @ \cup {task} ELSE @],
               "history")

\* fill_history from the guard to the fetch: with self.loading():
\* history_pending = True; await fetch_conversations_history
fill_history_guard(s, task) ==
    AwaitFetch([loading_enter(s) EXCEPT !.conversation.history_pending = TRUE,
                                        !.conversation.fetching = @ \cup {task},
                                        !.conversation.with_buffer =
                                            IF s.conversation.buffer_pointer # 0
                                            THEN @ \cup {task} ELSE @],
               "history")

\* nick_suffix(): the option weechat.completion.nick_completer
nick_suffix == <<":", " ">>

\* def complete_input(conversation, query): ok = FALSE where
\* completion_values[completion_index] raises IndexError.  With
\* conversation.completing() the context is IN_PROGRESS_COMPLETION while the
\* input is set and ACTIVE_COMPLETION after.
complete_input(s, query) ==
    LET c == s.conversation
        at == subscript(c.completion_values, c.completion_index)
        read == [s EXCEPT !.conversation.completion_read =
                    [reads |-> TRUE, index |-> c.completion_index,
                     len |-> Len(c.completion_values)]]
        input_value == s.input.value
        input_pos == s.input.pos
        result == c.completion_values[at.index]
        input_before == removesuffix(SubSeq(input_value, 1, input_pos), query)
        input_after == slice_from(input_value, input_pos)
        new_input == input_before \o result \o input_after
        new_pos == input_pos - Len(query) + Len(result)
    IN  IF c.completion_context = "ACTIVE_COMPLETION" /\ c.completion_values # <<>>
        THEN IF ~ at.ok THEN [s |-> read, ok |-> FALSE]
             ELSE [s |-> [read EXCEPT !.input = InputLine(new_input, new_pos),
                                      !.conversation.completion_context = "ACTIVE_COMPLETION"],
                   ok |-> TRUE]
        ELSE [s |-> s, ok |-> TRUE]

\* complete_user_next ends with complete_input, which came to r
Completed(r) == IF r.ok THEN Return(r.s) ELSE RaiseExc(r.s, IndexError)

\* complete_user_next from its first line to its first await
complete_user_next_start(s, task) ==
    LET c == s.conversation
        query == s.tasks[task].arg.query
        next == c.completion_index + 1
    IN  IF c.completion_context = "NO_COMPLETION"
        THEN AwaitFetch([s EXCEPT !.conversation.completion_context = "PENDING_COMPLETION"],
                        "search")
        ELSE IF c.completion_context = "ACTIVE_COMPLETION"
        THEN Completed(complete_input(
                 [s EXCEPT !.conversation.completion_index =
                               IF next >= Len(c.completion_values) THEN 0 ELSE next],
                 query))
        ELSE Completed(complete_input(s, query))

\* complete_user_next after fetch_users_search returned `search`
complete_user_next_found(s, task, search) ==
    LET query == s.tasks[task].arg.query
        suffix == IF s.tasks[task].arg.is_first_word THEN nick_suffix ELSE <<" ">>
    IN  IF s.conversation.completion_context # "PENDING_COMPLETION" THEN Return(s)
        ELSE Completed(complete_input(
                 [s EXCEPT !.conversation.completion_context = "ACTIVE_COMPLETION",
                           !.conversation.completion_values =
                               [i \in 1..Len(search.out) |-> <<search.out[i]>> \o suffix],
                           !.conversation.completion_index = 0],
                 query))

\* complete_previous after complete_input came to r
previous_completed(r) == IF r.ok THEN Returned(r.s) ELSE Propagated(r.s, IndexError)

\* complete_previous leaving the index at -1 when it steps back from the first value
complete_previous_no_wrap(s, query) ==
    IF s.conversation.completion_context = "ACTIVE_COMPLETION"
    THEN previous_completed(complete_input(
             [s EXCEPT !.conversation.completion_index = @ - 1], query))
    ELSE Returned(s)

complete_previous(s, query) ==
    LET c == s.conversation
        previous == c.completion_index - 1
    IN  IF c.completion_context = "ACTIVE_COMPLETION"
        THEN previous_completed(complete_input(
                 [s EXCEPT !.conversation.completion_index =
                               IF previous < 0 THEN Len(c.completion_values) - 1
                               ELSE previous],
                 query))
        ELSE Returned(s)

\* the coroutine from its first line to its first await
conversation_start(s, task) ==
    LET tk == s.tasks[task]
        c == s.conversation
    IN  CASE tk.prog = "open_buffer" ->
               IF c.buffer_pointer # 0 THEN Return(s)
               ELSE IF c.type = "mpim" /\ ~ c._members THEN AwaitFetch(s, "members")
               ELSE open_buffer_new(s, task)
          [] tk.prog = "fill_history" ->
               IF c.history_filled \/ c.history_pending
               THEN Return([s EXCEPT !.conversation.skipped = @ \cup {task}])
               ELSE fill_history_guard(s, task)
          [] tk.prog = "buffer_switched_to" ->
               AwaitGather(s, "gather", <<"nicklist_update", "fill_history">>)
          [] tk.prog = "nicklist_update" ->
               IF ~ c.nicklist_needs_refresh THEN Return(s)
               ELSE LET s1 == [s EXCEPT !.conversation.nicklist_needs_refresh = FALSE]
                    IN  IF ~ c._members THEN AwaitFetch(s1, "members")
                        ELSE AwaitGather(s1, "nicks", <<"nicklist_add_user">>)
          [] tk.prog = "render" ->
               \* the message is the one gather started this task for
               LET renders == s.tasks[tk.parent].children
                   message == c._messages[CHOOSE i \in 1..Len(renders) : renders[i] = task]
               IN  IF message = "x"
                   THEN RaiseExc(s, Exc("KeyError", 0, 0, <<"x">>))
                   ELSE ReturnValue(s, StrVal(<<message>>))
          [] tk.prog = "complete_user_next" -> complete_user_next_start(s, task)
          [] OTHER -> Return(s)

\* the coroutine after the await of tasks[task].stage returned `value`
conversation_after(s, task, value) ==
    LET tk == s.tasks[task]
    IN  CASE tk.stage = "members" /\ tk.prog = "open_buffer" ->
               open_buffer_new([s EXCEPT !.conversation._members = TRUE], task)
          [] tk.stage = "members" ->
               AwaitGather([s EXCEPT !.conversation._members = TRUE],
                           "nicks", <<"nicklist_add_user">>)
          [] tk.stage = "search" -> complete_user_next_found(s, task, value)
          [] tk.stage = "history" ->
               AwaitGather([s EXCEPT !.conversation._messages = value.out,
                                     !.conversation.fetching = @ \ {task}],
                           "render", Renders(value.out))
          [] tk.stage = "render" ->
               Return(loading_exit(
                        [s EXCEPT !.conversation.printing =
                                      IF s.conversation._messages = <<>> THEN @
                                      ELSE @ \cup {task},
                                  !.conversation.history_filled = TRUE,
                                  !.conversation.history_pending = FALSE]))
          [] OTHER -> Return(s)

\* an exception leaves the coroutine; on its way out of fill_history it
\* passes the finally of `with self.loading()`
conversation_raise(s, task, exc) ==
    IF s.tasks[task].prog = "fill_history"
    THEN Raises(loading_exit([s EXCEPT !.conversation.fetching = @ \ {task}]), task, exc)
    ELSE Raises(s, task, exc)

\* the awaited call returned `value`: the coroutine runs on from there
conversation_returned(s, task, value) ==
    conversation_after([s EXCEPT !.tasks[task].status = "running",
                                 !.tasks[task].result = None,
                                 !.tasks[task].frame = NoFrame],
                       task, value)

\* the coroutine after http_request came to r: it is suspended in one of
\* http_request's awaits, http_request raised, or it returned the body
conversation_fetched(r, task) ==
    CASE r.kind = "yield" -> r
      [] r.kind = "raise" -> conversation_raise(r.s, task, r.exc)
      [] OTHER -> conversation_do(conversation_returned(r.s, task, r.value), task)

\* the coroutine after gather started its n tasks, which came back as r
conversation_gathering(r, task, n) ==
    IF r.raised THEN conversation_raise(r.s, task, r.exc)
    ELSE gather_await([r.s EXCEPT !.tasks[task].gathering = TRUE], task, n)

\* the coroutine executes the statement: it is suspended in an await, it
\* returns, it raises, or the awaited call returns at once and it runs on
conversation_do(st, task) ==
    LET staged == [st.s EXCEPT !.tasks[task].stage = st.stage]
    IN  CASE st.do = "return" -> Stops(st.s, task, st.value)
          [] st.do = "raise" -> conversation_raise(st.s, task, st.exc)
          [] st.do = "fetch" ->
               conversation_fetched(http_request(staged, task, DefaultMaxRetries), task)
          [] st.do = "resume" ->
               conversation_fetched(http_run(st.s, task, st.value), task)
          [] st.do = "next" -> gather_await(st.s, task, Len(st.progs))
          [] st.progs = <<>> -> conversation_do(conversation_returned(staged, task, None), task)
          [] OTHER ->
               conversation_gathering(
                   gather_start([staged EXCEPT !.tasks[task].gathered = <<>>],
                                task, st.progs, 1),
                   task, Len(st.progs))

\* the coroutine of a SlackConversation method resumed with `response`
conversation_run(s, task, response) ==
    LET tk == s.tasks[task]
        progs == Gathered(s, task)
        s1 == [s EXCEPT !.tasks[task].gathered = Append(@, tk.last)]
    IN  conversation_do(
            IF tk.gathering
            THEN IF Len(tk.gathered) + 1 < Len(progs) THEN AwaitNext(s1, progs)
                 ELSE conversation_after([s1 EXCEPT !.tasks[task].gathering = FALSE],
                                         task, None)
            ELSE IF tk.stage = "start" THEN conversation_start(s, task)
            ELSE ResumeFetch(s, response),
            task)

\* coroutine.send(response)
coroutine_send(s, task, response) ==
    LET tk == s.tasks[task]
        s1 == [s EXCEPT !.tasks[task].last = response,
                        !.tasks[task].status = "running",
                        !.tasks[task].got =
                            IF tk.status = "created" \/ tk.coro # "script" THEN @
                            ELSE Append(@, <<tk.waiting, response>>)]
    IN  CASE tk.coro = "http" -> http_run(s1, task, response)
          [] tk.coro = "conversation" -> conversation_run(s1, task, response)
          [] OTHER -> script_run(s1, task)

----------------------------------------------------------------------------
\* The transport: what the process weechat runs for "url:..." with header=1
\* prints.  A result carries the str the process writes and, for the
\* properties, what it was built from.

DigitToken == <<"0", "1", "2", "3", "4", "5", "6", "7", "8", "9">>
RECURSIVE Digits(_)
Digits(n) ==
    IF n < 10 THEN <<DigitToken[n + 1]>>
    ELSE Digits(n \div 10) \o <<DigitToken[(n % 10) + 1]>>

StatusLine(status) == <<"HTTP/1.1", " ">> \o Digits(status) \o <<" ", "Reason">>

RECURSIVE HeaderBlock(_)
HeaderBlock(headers) ==
    IF headers = <<>> THEN <<>>
    ELSE CRLF \o Head(headers) \o HeaderBlock(Tail(headers))

ResponseText(status, headers, body) ==
    StatusLine(status) \o HeaderBlock(headers) \o CRLF \o CRLF \o body

Answer(status, headers, retry, body) ==
    Result(0, ResponseText(status, headers, body), <<>>, status, retry, body, TRUE)
Failure(rc, out, err) == Result(rc, out, err, 0, -1, <<>>, FALSE)

HeaderX == <<"X", ":", " ", "y">>
Answers ==
    { Answer(200, <<>>, -1, <<"hello">>),
      Answer(200, <<HeaderX>>, -1, <<"a">> \o CRLF \o CRLF \o <<"b">>),
      Answer(399, <<HeaderX>>, -1, <<>>),
      Answer(400, <<>>, -1, <<"bad", " ", "request">>),
      Answer(404, <<HeaderX>>, -1, <<"body", " ", "text">>),
      Answer(500, <<HeaderX, <<"Retry-After", ":", " ", "3">>>>, -1, CRLF \o CRLF),
      Answer(429, <<<<"Retry-After", ":", " ", "3">>>>, 3, <<"slow">>),
      Answer(429, <<HeaderX, <<"RETRY-AFTER", ":", "0", " ">>, HeaderX>>, 0, <<>>),
      Answer(429, <<HeaderX>>, -1, <<"slow">>) }

Failures ==
    { Failure(1, <<>>, <<>>),
      Failure(0, ResponseText(200, <<>>, <<"hello">>), <<"warn">>),
      Failure(-2, <<>>, <<"no", " ", "route">>),
      \* a process that exits 0 and prints no header block, and a 429 whose
      \* first header line has no colon
      [Failure(0, <<"HTTP/1.1", " ", "2", "0", "0">>, <<>>) EXCEPT !.status = 200],
      [Failure(0, ResponseText(429, <<<<"junk">>, <<"Retry-After", ":", "3">>>>, <<>>), <<>>)
         EXCEPT !.status = 429] }

Transport == Answers \cup Failures

\* whether weechat reports the attempt as failed: return_code != 0 or err
TransportFailed(res) == res.rc # 0 \/ res.err # <<>>

----------------------------------------------------------------------------
\* The host.  It calls into the script (create_task from main or a command,
\* weechat_task_cb from a hook) and gets the handler's exception if it raises.

Host(r) == IF r.raised THEN [r.s EXCEPT !.escaped = @ + 1] ELSE r.s

\* the tasks host code created
TopTasks == {t \in DOMAIN tasks : tasks[t].parent = 0}

Init ==
    /\ active_tasks = EmptyMap
    /\ active_responses = EmptyMap
    /\ tasks = EmptyMap
    /\ hooks = EmptyMap
    /\ next_id = 1
    /\ free_fds = 10
    /\ served = EmptyMap
    /\ escaped = 0
    /\ uncaught_errors = <<>>
    /\ printed = NoCommand
    /\ conversation = SlackConversation("channel")
    /\ buffers = <<>>
    /\ workspaces = EmptyMap
    /\ input = InputLine(<<>>, 0)

\* host code starts a coroutine: create_task(coroutine, final); the k-th
\* coroutine it starts is called with the argument k
CreateTask ==
    /\ Cardinality(TopTasks) < MaxTop
    /\ \E prog \in TopPrograms, final \in BOOLEAN :
         Becomes(Host(create_task(State,
                        Coroutine("script", prog, Cardinality(TopTasks) + 1, 0), final)))

\* a timer hooked with max_calls = 1 fires: weechat_task_cb(data, remaining_calls)
TimerFires ==
    \E f \in DOMAIN hooks :
        /\ hooks[f].kind = "timer"
        /\ Becomes(Host(weechat_task_cb([State EXCEPT !.hooks = Pop(@, f)], f, TimerArgs)))

\* host code starts a request:
\* create_task(http_request(url, options, timeout, max_retries), final)
HttpStart ==
    /\ tasks = EmptyMap
    /\ \E max_retries \in 0..MaxRetries, final \in BOOLEAN :
         Becomes(Host(create_task(State,
                        Coroutine("http", "http_request", max_retries, 0), final)))

\* what the process of hook f has written so far (nothing is kept once it ends)
Served(f) ==
    IF f \in DOMAIN served THEN served[f]
    ELSE [res |-> NoAnswer, out |-> 0, err |-> 0, partial |-> 0]
Results(f) == IF f \in DOMAIN served THEN {served[f].res} ELSE Transport
Serve(f, sv) == [x \in (DOMAIN served) \cup {f} |-> IF x = f THEN sv ELSE served[x]]

\* the lengths the next piece of `rest` tokens can have: nothing, ChunkSize
\* tokens, or all that is left when that is less
Pieces(rest) == {0, IF rest < ChunkSize THEN rest ELSE ChunkSize}

\* the lengths the next piece of a stderr of `rest` tokens can have: nothing,
\* one token, or all that is left
ErrPieces(rest) == {0, rest} \cup (IF rest > 1 THEN {1} ELSE {})

\* history: the coroutine awaiting hook f is told what the callback is called with
Delivered(s, f, args) ==
    IF f \in DOMAIN s.active_tasks
    THEN [s EXCEPT !.tasks[s.active_tasks[f]].frame.delivered = Append(@, args)]
    ELSE s

\* a running process has output: the callback gets return_code -1 and the
\* next piece of stdout and stderr
ProcessOutput ==
    \E f \in DOMAIN hooks :
        /\ next_id <= MaxId
        /\ hooks[f].kind = "process"
        /\ Served(f).partial < MaxPartial
        /\ \E res \in Results(f) :
           \E k \in Pieces(Len(res.out) - Served(f).out),
              j \in ErrPieces(Len(res.err) - Served(f).err) :
             LET args == ProcessArgs(-1,
                             SubSeq(res.out, Served(f).out + 1, Served(f).out + k),
                             SubSeq(res.err, Served(f).err + 1, Served(f).err + j))
             IN  Becomes(Host(weechat_task_cb(
                     Delivered([State EXCEPT !.served = Serve(f,
                                   [res |-> res, out |-> Served(f).out + k,
                                    err |-> Served(f).err + j,
                                    partial |-> Served(f).partial + 1])],
                               f, args),
                     f, args)))

\* history: the coroutine awaiting hook f is told what its attempt was answered
Answered(s, f, res) ==
    IF f \in DOMAIN s.active_tasks
    THEN [s EXCEPT !.tasks[s.active_tasks[f]].frame.answer = res,
                   !.tasks[s.active_tasks[f]].frame.failures =
                       IF TransportFailed(res) THEN @ + 1 ELSE @]
    ELSE s

\* a process ends: the callback gets its return code and the rest of its
\* output, and the hook is gone
ProcessExit ==
    \E f \in DOMAIN hooks :
        /\ next_id <= MaxId
        /\ hooks[f].kind = "process"
        /\ \E res \in Results(f) :
             LET args == ProcessArgs(res.rc, slice_from(res.out, Served(f).out),
                                             slice_from(res.err, Served(f).err))
             IN  Becomes(Host(weechat_task_cb(
                     Delivered(Answered([State EXCEPT !.hooks = Pop(@, f),
                                                      !.served = Pop(@, f)],
                                        f, res),
                               f, args),
                     f, args)))

\* a timer fires while the host still answers
HttpTimerFires == next_id <= MaxId /\ TimerFires

\* the process opens or closes descriptors: available_file_descriptors()
\* crosses the gate's threshold.  Only the gate reads it, when a request
\* starts or a timer fires, so only changes before those are modelled.
FdChange ==
    /\ next_id <= MaxId
    /\ tasks = EmptyMap \/ \E f \in DOMAIN hooks : hooks[f].kind = "timer"
    /\ free_fds' = IF free_fds < FdGate THEN FdGate ELSE FdGate - 1
    /\ UNCHANGED <<active_tasks, active_responses, tasks, hooks, next_id,
                   served, escaped, uncaught_errors, printed, conversation, buffers,
                       workspaces, input>>

NextHttp == HttpStart \/ HttpTimerFires \/ ProcessOutput \/ ProcessExit \/ FdChange

SpecHttp == Init /\ [][NextHttp]_vars

Next == CreateTask \/ TimerFires

Spec == Init /\ [][Next]_vars

----------------------------------------------------------------------------
\* Properties of the scheduler (Spec).

TaskIds == DOMAIN tasks
Finished(t) == tasks[t].status \in {"returned", "raised"}
Waiters == {active_tasks[f] : f \in DOMAIN active_tasks}
\* the values task p was resumed with for the Future (or Task) with id k
Received(p, k) == {tasks[p].got[i][2] : i \in {j \in 1..Len(tasks[p].got) : tasks[p].got[j][1] = k}}

\* C1: the return value of every task that returned met exactly one fate: it
\* was delivered to the task waiting on it (which then received it, and it is
\* not in active_responses), or it was stored in active_responses (task not
\* final), or it was discarded (task final, nothing stored).
C1_ExactlyOneFate ==
    \A t \in TaskIds :
        tasks[t].status = "returned" =>
            /\ Len(tasks[t].fate) = 1
            /\ tasks[t].fate[1] = "delivered" =>
                  /\ t \notin DOMAIN active_responses
                  /\ \E p \in TaskIds : tasks[t].result \in Received(p, t)
            /\ tasks[t].fate[1] = "stored" =>
                  /\ ~ tasks[t].final
                  /\ t \in DOMAIN active_responses => active_responses[t] = tasks[t].result
            /\ tasks[t].fate[1] = "discarded" =>
                  /\ tasks[t].final
                  /\ t \notin DOMAIN active_responses

\* the three fates have all occurred, each to another task
C1_Witness ==
    \E a, b, c \in TaskIds :
        /\ tasks[a].status = "returned" /\ tasks[a].fate = <<"delivered">>
        /\ tasks[b].status = "returned" /\ tasks[b].fate = <<"stored">>
        /\ tasks[c].status = "returned" /\ tasks[c].fate = <<"discarded">>

\* C2: a task that awaits a non-final task which had already returned is
\* resumed, in that same run, with exactly the value that task returned; so no
\* task stays registered under a returned non-final task it was the first to
\* await.
C2_RaceDelivers ==
    /\ \A p \in TaskIds : \A i \in 1..Len(tasks[p].raced) :
          LET at == tasks[p].raced[i]
          IN  /\ at <= Len(tasks[p].got)
              /\ tasks[tasks[p].got[at][1]].status = "returned"
              /\ tasks[p].got[at][2] = tasks[tasks[p].got[at][1]].result
    /\ \A k \in (DOMAIN active_tasks) \cap TaskIds :
          (tasks[k].status = "returned" /\ ~ tasks[k].final) => tasks[k].awaited >= 2

\* a task was suspended on the host, then awaited a child that had returned
\* before, and was resumed with the child's int
C2_Witness ==
    \E p \in TaskIds : \E i \in 1..Len(tasks[p].raced) :
        /\ tasks[p].raced[i] > 1
        /\ tasks[p].raced[i] <= Len(tasks[p].got)
        /\ tasks[p].got[tasks[p].raced[i]][2].kind = "int"
        /\ tasks[p].got[tasks[p].raced[i] - 1][2].kind = "timer"

\* C3: no id is a key of active_tasks and of active_responses at once.
C3_RegistriesDisjoint == (DOMAIN active_tasks) \cap (DOMAIN active_responses) = {}

\* the race is pending: a task is suspended on a timer while the result of a
\* child it has not awaited yet sits in active_responses
C3_Witness ==
    \E p \in Waiters : \E i \in 1..Len(tasks[p].children) :
        /\ tasks[p].children[i] \in DOMAIN active_responses
        /\ tasks[p].waiting \in DOMAIN active_tasks
        /\ tasks[p].waiting \in DOMAIN hooks

\* C4: the exception a final task's coroutine raised was recorded in the
\* uncaught-error list and did not reach the host.
C4_FinalErrorsRecorded ==
    \A t \in TaskIds :
        (tasks[t].final /\ tasks[t].status = "raised") =>
            /\ \E i \in 1..Len(uncaught_errors) : uncaught_errors[i].id = t
            /\ escaped = 0

\* C5: no task stays registered in active_tasks under a task whose coroutine
\* raised: the waiter was resumed with the failure.
C5_FailureReachesWaiter ==
    \A k \in (DOMAIN active_tasks) \cap TaskIds : tasks[k].status # "raised"

----------------------------------------------------------------------------
\* Properties of http_request (SpecHttp).

Requests == {t \in TaskIds : tasks[t].coro = "http"}
Frame(t) == tasks[t].frame
\* the attempts of t that have been answered
AnsweredAttempts(t) ==
    IF tasks[t].status = "suspended" /\ Frame(t).at = "process"
    THEN Len(Frame(t).attempts) - 1 ELSE Len(Frame(t).attempts)
\* the last answered attempt of t was a transport success with a framed text
Parsed(t) ==
    /\ AnsweredAttempts(t) > 0
    /\ ~ (tasks[t].status = "suspended" /\ Frame(t).at \in {"gate", "process"})
    /\ ~ TransportFailed(Frame(t).answer)
    /\ Frame(t).answer.framed

\* C6: a request whose every attempt failed in the transport never makes more
\* than max_retries + 1 attempts, and when it ends it has made exactly
\* max_retries + 1 and has raised HttpError with http_status 0 and the stderr
\* of the last attempt.
C6_FailuresExhaustRetries ==
    \A t \in Requests :
        (AnsweredAttempts(t) > 0 /\ Frame(t).failures = AnsweredAttempts(t)) =>
            /\ Len(Frame(t).attempts) <= tasks[t].arg + 1
            /\ Finished(t) =>
                  /\ Len(Frame(t).attempts) = tasks[t].arg + 1
                  /\ tasks[t].status = "raised"
                  /\ tasks[t].exc = HttpError(Frame(t).answer.rc, 0, Frame(t).answer.err)

\* max_retries = 2, three failed attempts, HttpError with http_status 0 and a stderr
C6_Witness ==
    \E t \in Requests :
        /\ tasks[t].arg = 2
        /\ Frame(t).failures = 3
        /\ Frame(t).attempts = <<2, 1, 0>>
        /\ tasks[t].status = "raised"
        /\ tasks[t].exc.type = "HttpError"
        /\ tasks[t].exc.http_status = 0
        /\ tasks[t].exc.error # <<>>

\* the last answered attempt of t got a 429 whose Retry-After the scan reaches
RateLimited(t) ==
    /\ AnsweredAttempts(t) > 0
    /\ ~ TransportFailed(Frame(t).answer)
    /\ Frame(t).answer.framed
    /\ Frame(t).answer.status = TooManyRequests
    /\ Frame(t).answer.retry >= 0

\* C7: after a 429 with Retry-After: s the request is suspended on a timer of
\* s * 1000 ms with no process hooked, and the attempt made after it runs with
\* the max_retries of the attempt that received the 429.
C7_RateLimitKeepsBudget ==
    \A t \in Requests :
        RateLimited(t) =>
            /\ Len(Frame(t).attempts) = AnsweredAttempts(t) =>
                  /\ tasks[t].status = "suspended"
                  /\ \A f \in DOMAIN hooks : hooks[f].kind = "timer"
                  /\ Frame(t).at = "ratelimit" =>
                        /\ tasks[t].waiting \in DOMAIN hooks
                        /\ hooks[tasks[t].waiting].ms = Frame(t).answer.retry * 1000
            /\ Len(Frame(t).attempts) > AnsweredAttempts(t) =>
                  Frame(t).attempts[AnsweredAttempts(t) + 1] = Frame(t).attempts[AnsweredAttempts(t)]

\* C8: a request whose last answer has status 429 has neither raised nor returned.
C8_RateLimitAlwaysRetries ==
    \A t \in Requests :
        ( /\ AnsweredAttempts(t) > 0
          /\ ~ TransportFailed(Frame(t).answer)
          /\ Frame(t).answer.status = TooManyRequests ) => ~ Finished(t)

\* C9: a request whose last answer is a transport success with a status >= 400
\* other than 429 has raised HttpError with that status and with the text after
\* the first blank line as error, and has hooked nothing more.
C9_ErrorStatusRaises ==
    \A t \in Requests :
        ( /\ Parsed(t)
          /\ Frame(t).answer.status >= 400
          /\ Frame(t).answer.status # 429 ) =>
            /\ tasks[t].status = "raised"
            /\ tasks[t].exc = HttpError(0, Frame(t).answer.status, Frame(t).answer.body)
            /\ hooks = EmptyMap
            /\ t \notin DOMAIN active_responses

\* the 404 of the specification's example, and the 400 at the boundary
C9_Witness ==
    \E t \in Requests :
        /\ Parsed(t)
        /\ tasks[t].status = "raised"
        /\ tasks[t].exc.http_status \in {400, 404}
        /\ tasks[t].exc.error \in {<<"body", " ", "text">>, <<"bad", " ", "request">>}
        /\ tasks[t].exc.error = Frame(t).answer.body

\* C10: a request whose last answer is a transport success with a status below
\* 400 has returned exactly the text after the first blank line, and has hooked
\* nothing more.
C10_SuccessReturnsBody ==
    \A t \in Requests :
        (Parsed(t) /\ Frame(t).answer.status < 400) =>
            /\ tasks[t].status = "returned"
            /\ tasks[t].result = StrVal(Frame(t).answer.body)
            /\ hooks = EmptyMap
            /\ ~ tasks[t].final => active_responses = (t :> StrVal(Frame(t).answer.body))

\* a body that itself holds a blank line was returned whole, after a retry
C10_Witness ==
    \E t \in Requests :
        /\ Parsed(t)
        /\ tasks[t].status = "returned"
        /\ Len(Frame(t).attempts) > 1
        /\ tasks[t].result.out = <<"a">> \o CRLF \o CRLF \o <<"b">>

\* the chunks of a sequence of callback arguments, written one after another
RECURSIVE Written(_, _)
Written(delivered, stream) ==
    IF delivered = <<>> THEN <<>>
    ELSE Written(SubSeq(delivered, 1, Len(delivered) - 1), stream)
            \o (IF stream = "out" THEN delivered[Len(delivered)].out
                ELSE delivered[Len(delivered)].err)

\* C11: while every delivery a hook_process_hashtable call has got had
\* return_code -1 the call has not returned: its task is suspended on the same
\* future; once the last delivery has a return_code r other than -1 (all before
\* it having -1), the call has returned r, the stdout chunks written one after
\* another in delivery order, and the stderr chunks likewise.
C11_ChunksConcatenated ==
    \A t \in Requests :
        LET d == Frame(t).delivered
        IN  d # <<>> =>
              /\ \A i \in 1..(Len(d) - 1) : d[i].n = -1
              /\ d[Len(d)].n = -1 =>
                    /\ tasks[t].status = "suspended"
                    /\ Frame(t).at = "process"
                    /\ Frame(t).future \in DOMAIN active_tasks
                    /\ active_tasks[Frame(t).future] = t
                    /\ Frame(t).stdout = Written(d, "out")
                    /\ Frame(t).stderr = Written(d, "err")
              /\ d[Len(d)].n # -1 =>
                    /\ ~ (tasks[t].status = "suspended" /\ Frame(t).at = "process")
                    /\ Frame(t).return_code = d[Len(d)].n
                    /\ Frame(t).stdout = Written(d, "out")
                    /\ Frame(t).stderr = Written(d, "err")
                    /\ Frame(t).stdout = Frame(t).answer.out
                    /\ Frame(t).stderr = Frame(t).answer.err

\* a call has returned after two deliveries that both carried stdout, and one
\* after two deliveries that both carried stderr
C11_Witness ==
    \E t \in Requests :
        LET d == Frame(t).delivered
        IN  /\ Len(d) = 2
            /\ d[1].n = -1 /\ d[2].n # -1
            /\ \/ d[1].out # <<>> /\ d[2].out # <<>> /\ d[1].out # d[2].out
               \/ d[1].err # <<>> /\ d[2].err # <<>> /\ d[1].err # d[2].err
            /\ Finished(t)

\* the process hooks
ProcessHooks == {f \in DOMAIN hooks : hooks[f].kind = "process"}

\* task t reaches the gate in this step: it is created, or it is resumed from
\* the await of a timer (the gate's own, or the sleep before a retry)
ReachesGate(t) ==
    \/ t \notin DOMAIN tasks
    \/ /\ tasks[t].status = "suspended"
       /\ Frame(t).at \in {"gate", "backoff", "ratelimit"}
       /\ tasks'[t] # tasks[t]

\* C12: a step that hooks a process is taken with at least 10 descriptors
\* available; and a step in which a request reaches the gate with fewer than 10
\* hooks no process and leaves the request suspended, in the gate, on a new
\* timer of 10 ms.
C12_GateDelaysHook ==
    [][ /\ (ProcessHooks' \ ProcessHooks # {}) =>
              (free_fds >= FdGate /\ free_fds' = free_fds)
        /\ \A t \in DOMAIN tasks' :
              (tasks'[t].coro = "http" /\ ReachesGate(t) /\ free_fds < FdGate) =>
                  /\ free_fds' = free_fds
                  /\ ProcessHooks' \subseteq ProcessHooks
                  /\ tasks'[t].status = "suspended"
                  /\ tasks'[t].frame.at = "gate"
                  /\ tasks'[t].waiting \in (DOMAIN hooks') \ (DOMAIN hooks)
                  /\ hooks'[tasks'[t].waiting] = Hook("timer", GateSleepMs)
                  /\ active_tasks'[tasks'[t].waiting] = t
      ]_vars

\* a request was delayed twice by the gate (the timers after its future) and
\* then hooked its first process, with 10 descriptors available
C12_Witness ==
    \E t \in Requests :
        /\ tasks[t].status = "suspended"
        /\ Frame(t).at = "process"
        /\ Frame(t).future \in ProcessHooks
        /\ Len(Frame(t).attempts) = 1
        /\ next_id = Frame(t).future + 3
        /\ free_fds = FdGate

\* the entries of got that this step added to task t
NewlyGot(t) ==
    IF t \in DOMAIN tasks
    THEN SubSeq(tasks'[t].got, Len(tasks[t].got) + 1, Len(tasks'[t].got))
    ELSE tasks'[t].got
\* how many of them are host events
HostEvents(got) == Cardinality({i \in 1..Len(got) : got[i][2].kind = "timer"})

\* C13: the step that delivers a host event with key f resumes the task
\* registered under f, first of all and with that event, and the task has
\* suspended again or finished when the step ends; the step delivers no other
\* event, resumes no other task with a host event, and leaves no task running:
\* each delivery is wholly processed before the next one is delivered.
C13_DeliveriesInOrder ==
    [][ /\ Cardinality((DOMAIN hooks) \ (DOMAIN hooks')) <= 1
        /\ \A t \in DOMAIN tasks' : tasks'[t].status \notin {"created", "running"}
        /\ \A f \in (DOMAIN hooks) \ (DOMAIN hooks') :
              /\ f \in DOMAIN active_tasks
              /\ f \notin DOMAIN active_tasks'
              /\ LET task == active_tasks[f]
                 IN  /\ NewlyGot(task) # <<>>
                     /\ NewlyGot(task)[1] = <<f, TimerArgs>>
                     /\ SubSeq(tasks'[task].got, 1, Len(tasks[task].got)) = tasks[task].got
                     /\ \A t \in DOMAIN tasks' :
                           HostEvents(NewlyGot(t)) = IF t = task THEN 1 ELSE 0
        /\ (DOMAIN hooks) \subseteq (DOMAIN hooks') =>
              \A t \in DOMAIN tasks' : HostEvents(NewlyGot(t)) = 0
      ]_vars

\* two timers were pending at once and the one hooked last was delivered
\* first: the coroutine that awaits its second child first was resumed by that
\* child, then by the first, and never out of active_responses
C13_Witness ==
    \E p \in TaskIds :
        /\ tasks[p].prog = "pair"
        /\ tasks[p].status = "returned"
        /\ tasks[p].raced = <<>>
        /\ Len(tasks[p].got) = 2
        /\ \A k \in 1..2 :
              LET c == tasks[p].children[k]
              IN  /\ tasks[c].got = << <<tasks[c].waiting, TimerArgs>> >>
                  /\ tasks[c].fate = <<"delivered">>
        /\ tasks[tasks[p].children[2]].waiting > tasks[tasks[p].children[1]].waiting

\* C14: once the host has delivered every event that was registered (no hook
\* is left, so nothing more will be delivered), every task that create_task
\* started has finished: its coroutine has returned or raised.
C14_TasksFinish ==
    hooks = EmptyMap => \A t \in TaskIds : Finished(t)

\* the tasks that have awaited gather, and whether gather has resumed them
Gatherers == {t \in TaskIds : tasks[t].prog = "fan"}
GatherResumed(t) == tasks[t].pc > 1

\* C15: a coroutine awaiting gather(c1, ..., cN) is resumed only when all N
\* tasks have returned, and then the list it gets holds, at every position i,
\* the value task i returned; until then it stays suspended inside gather.
C15_GatherInOrder ==
    \A t \in Gatherers :
        LET n == Len(tasks[t].children)
            done == \A i \in 1..n : tasks[tasks[t].children[i]].status = "returned"
        IN  /\ GatherResumed(t) =>
                  /\ done
                  /\ Len(tasks[t].gathered) = n
                  /\ \A i \in 1..n :
                        tasks[t].gathered[i] = tasks[tasks[t].children[i]].result
            /\ ~ done => (tasks[t].status = "suspended" /\ tasks[t].gathering)
            /\ done => GatherResumed(t)

\* gather has yielded three different results in their positions although its
\* third task completed before its first (its value was stored, the first's
\* was delivered to the waiting caller)
C15_Witness ==
    \E t \in Gatherers :
        /\ tasks[t].status = "returned"
        /\ tasks[t].gathered = <<IntVal(ChildArg(tasks[t].arg, 1)),
                                 IntVal(ChildArg(tasks[t].arg, 2)),
                                 IntVal(ChildArg(tasks[t].arg, 3))>>
        /\ tasks[tasks[t].children[1]].fate = <<"delivered">>
        /\ tasks[tasks[t].children[3]].fate = <<"stored">>

\* C16: for every yield of a Future whose id was in active_responses: the
\* entry is gone from active_responses, the task was resumed in that same run
\* with the stored value and not with a host event, and that yield did not
\* register it in active_tasks; so no task is ever left suspended on an id
\* that is a key of active_responses.
C16_StoredResultResumes ==
    /\ \A p \in TaskIds : \A j \in 1..Len(tasks[p].raced) :
          LET at == tasks[p].raced[j]
          IN  /\ at <= Len(tasks[p].got)
              /\ LET k == tasks[p].got[at][1]
                     response == tasks[p].got[at][2]
                 IN  /\ k \notin DOMAIN active_responses
                     /\ response.kind # "timer"
                     /\ response = tasks[k].result
                     /\ (k \in DOMAIN active_tasks /\ active_tasks[k] = p) =>
                            tasks[k].awaited >= 2
    /\ \A p \in TaskIds :
          tasks[p].status = "suspended" => tasks[p].waiting \notin DOMAIN active_responses

\* a task was created, awaited a task that had already returned and returned
\* its value, all in the run that created it: no hook was ever registered
C16_Witness ==
    \E p \in TaskIds :
        /\ tasks[p].prog = "now"
        /\ tasks[p].status = "returned"
        /\ tasks[p].raced = <<1>>
        /\ tasks[p].got = << <<tasks[p].children[1], IntVal(ChildArg(tasks[p].arg, 1))>> >>
        /\ tasks[p].result = IntVal(ChildArg(tasks[p].arg, 1))
        /\ active_tasks = EmptyMap
        /\ hooks = EmptyMap
        /\ next_id = 3

\* task t returns in this step
ReturnsNow(t) ==
    /\ t \in DOMAIN tasks'
    /\ tasks'[t].status = "returned"
    /\ t \in DOMAIN tasks => tasks[t].status # "returned"

\* C17: in a step in which a task returns v while a task is registered under
\* its id, that waiter is taken out of active_tasks and resumed in the same
\* step, first of all with v (handed over, not taken out of active_responses),
\* and v is not stored in active_responses; and a value is handed over only to
\* a waiter that was registered.
C17_WaiterResumed ==
    [][ \A t \in DOMAIN tasks' :
          /\ (ReturnsNow(t) /\ t \in DOMAIN active_tasks) =>
                LET waiter == active_tasks[t]
                IN  /\ tasks'[t].fate = <<"delivered">>
                    /\ NewlyGot(waiter) # <<>>
                    /\ NewlyGot(waiter)[1] = <<t, tasks'[t].result>>
                    /\ \A j \in 1..Len(tasks'[waiter].raced) :
                          tasks'[waiter].raced[j] # Len(tasks[waiter].got) + 1
                    /\ tasks'[waiter].status \in {"suspended", "returned", "raised"}
                    /\ t \notin DOMAIN active_responses'
                    /\ t \in DOMAIN active_tasks' => tasks'[t].awaited > tasks[t].awaited
          /\ (ReturnsNow(t) /\ tasks'[t].fate = <<"delivered">>) =>
                t \in DOMAIN active_tasks
      ]_vars

\* a chain of two hand-overs in one run: the timer resumed a task whose value
\* resumed its waiter, whose value resumed the waiter's waiter
C17_Witness ==
    \E p \in TaskIds :
        /\ tasks[p].prog = "nest"
        /\ tasks[p].status = "returned"
        /\ LET c == tasks[p].children[1]
               g == tasks[c].children[1]
           IN  /\ tasks[g].fate = <<"delivered">>
               /\ tasks[c].fate = <<"delivered">>
               /\ tasks[c].got = << <<g, tasks[g].result>> >>
               /\ tasks[p].got = << <<c, tasks[g].result>> >>
               /\ tasks[p].raced = <<>>
               /\ {c, g} \cap ((DOMAIN active_tasks) \cup (DOMAIN active_responses)) = {}

\* C18: no key of active_responses is the id of a task created with final = True.
C18_NoFinalResultStored ==
    \A k \in DOMAIN active_responses : k \in TaskIds /\ ~ tasks[k].final

\* a final task returned with no task waiting on it and its value is nowhere,
\* while the value of a non-final task is stored and a task awaits the final
\* one in vain
C18_Witness ==
    \E t \in TaskIds :
        /\ tasks[t].final
        /\ tasks[t].status = "returned"
        /\ tasks[t].result.kind = "int"
        /\ t \notin DOMAIN active_responses
        /\ active_responses # EmptyMap
        /\ t \in DOMAIN active_tasks
        /\ tasks[active_tasks[t]].status = "suspended"

\* task t yields, in this step, a Future whose id is a key of active_tasks
ClashesNow(t) ==
    Len(tasks'[t].clashed) > (IF t \in DOMAIN tasks THEN Len(tasks[t].clashed) ELSE 0)

\* C19: a step in which a task yields a Future whose id is a key of
\* active_tasks (and not of active_responses) ends with an exception at the
\* host and with both registries exactly as they were at that yield: the id
\* still maps to the task that was registered under it, and the yielding task
\* is registered nowhere.
C19_ClashFails ==
    [][ \A t \in DOMAIN tasks' :
          ClashesNow(t) =>
              LET clash == tasks'[t].clashed[Len(tasks'[t].clashed)]
              IN  /\ clash.future \in DOMAIN clash.active_tasks
                  /\ clash.future \notin DOMAIN clash.active_responses
                  /\ clash.active_tasks[clash.future] # t
                  /\ escaped' = escaped + 1
                  /\ active_tasks' = clash.active_tasks
                  /\ active_responses' = clash.active_responses
                  /\ \A f \in DOMAIN active_tasks' : active_tasks'[f] # t
      ]_vars

\* a coroutine awaited a task that another task was already awaiting, from
\* inside a create_task call of its parent: the parent's coroutine raised, and
\* the task registered first was later resumed with the awaited task's value
C19_Witness ==
    \E t \in TaskIds :
        /\ Len(tasks[t].clashed) = 1
        /\ tasks[t].status = "suspended"
        /\ tasks[t].parent # 0
        /\ tasks[tasks[t].parent].status = "raised"
        /\ LET k == tasks[t].clashed[1].future
               first == tasks[t].clashed[1].active_tasks[k]
           IN  /\ tasks[k].fate = <<"delivered">>
               /\ tasks[first].got = << <<k, tasks[k].result>> >>

\* C20: task_runner never finds the id of a task that returns, and that no task
\* waits on, in active_responses: no task was refused, every entry of
\* active_responses is the value its task returned, stored once, by a task that
\* returned once.
C20_StoreCheckNeverFires ==
    \A t \in TaskIds :
        /\ ~ tasks[t].refused
        /\ Cardinality({i \in 1..Len(tasks[t].fate) : tasks[t].fate[i] = "stored"}) <= 1
        /\ t \in DOMAIN active_responses =>
              /\ tasks[t].status = "returned"
              /\ tasks[t].fate = <<"stored">>
              /\ active_responses[t] = tasks[t].result

\* two tasks returned with no task registered under their ids, one after the
\* other; both passed the check and both values are stored
C20_Witness ==
    \E t, u \in DOMAIN active_responses :
        /\ t # u
        /\ tasks[t].prog = "peek" /\ tasks[u].prog = "slow"
        /\ tasks[t].got # <<>> /\ tasks[u].got # <<>>
        /\ tasks[t].fate = <<"stored">> /\ tasks[u].fate = <<"stored">>
        /\ ~ tasks[t].refused /\ ~ tasks[u].refused
        /\ t \notin DOMAIN active_tasks /\ u \notin DOMAIN active_tasks

\* what a coroutine's frame holds, without the history kept for the properties
Visible(tk) ==
    [ status |-> tk.status, pc |-> tk.pc, waiting |-> tk.waiting, last |-> tk.last,
      got |-> tk.got, children |-> tk.children, result |-> tk.result, exc |-> tk.exc ]

\* C21: the step that delivers the event with key f takes the task registered
\* under f out of active_tasks and resumes it with the delivered arguments;
\* every other task that was suspended is left as it was, still registered
\* under the same key, unless the task it awaits returns in that step (it is
\* then resumed with that task's value).
C21_DeliveryResumesOnlyItsTask ==
    [][ \A f \in (DOMAIN hooks) \ (DOMAIN hooks') :
          /\ f \in DOMAIN active_tasks
          /\ f \notin DOMAIN active_tasks'
          /\ tasks'[active_tasks[f]].got[Len(tasks[active_tasks[f]].got) + 1]
                = <<f, TimerArgs>>
          /\ \A g \in (DOMAIN active_tasks) \ {f} :
                LET q == active_tasks[g]
                IN  \/ /\ Visible(tasks'[q]) = Visible(tasks[q])
                       /\ g \in DOMAIN active_tasks'
                       /\ active_tasks'[g] = q
                    \/ /\ g \in TaskIds
                       /\ ReturnsNow(g)
                       /\ NewlyGot(q) # <<>>
                       /\ NewlyGot(q)[1] = <<g, tasks'[g].result>>
      ]_vars

\* two coroutines the host started were suspended on timers; the timer hooked
\* last was delivered and its task has returned, the other task is untouched
\* and still registered under its timer
C21_Witness ==
    \E p, q \in TopTasks :
        /\ tasks[p].prog = "slow" /\ tasks[q].prog = "slow"
        /\ q < p
        /\ tasks[p].status = "returned"
        /\ tasks[p].got = << <<tasks[p].waiting, TimerArgs>> >>
        /\ tasks[q].status = "suspended"
        /\ tasks[q].got = <<>>
        /\ tasks[q].waiting \in DOMAIN hooks
        /\ tasks[q].waiting \in DOMAIN active_tasks
        /\ active_tasks[tasks[q].waiting] = q

\* C22: when create_task returned normally the coroutine had run: the task had
\* returned, or it was suspended and registered in active_tasks under the id
\* of the Future it had yielded; it was never left created or running, and
\* never suspended without being registered.
C22_CreateTaskRunsEagerly ==
    \A t \in TaskIds :
        LET st == tasks[t].started
        IN  st.done =>
              \/ st.status = "returned"
              \/ /\ st.status = "suspended"
                 /\ st.waiting # 0
                 /\ st.registered

\* create_task returned with a task that had gone through a child that had
\* already returned and had then returned itself, and with a task, created by
\* a coroutine, that was registered under the id of a task it awaits
C22_Witness ==
    \E t, u \in TaskIds :
        /\ tasks[t].started.done
        /\ tasks[t].started.status = "returned"
        /\ tasks[t].raced # <<>>
        /\ tasks[u].started.done
        /\ tasks[u].parent # 0
        /\ tasks[u].started.status = "suspended"
        /\ tasks[u].started.registered
        /\ tasks[u].started.waiting \in TaskIds

\* C23: the id of a Future under which a delivery was consumed is not a key of
\* active_tasks again: a hook_process_hashtable call that has got a chunk does
\* not await the Future of that chunk once more.
C23_FutureOneShot ==
    \A t \in Requests :
        Frame(t).delivered # <<>> => Frame(t).future \notin DOMAIN active_tasks

\* the timers hooked in this step
NewTimers == {f \in (DOMAIN hooks') \ (DOMAIN hooks) : hooks'[f].kind = "timer"}

\* C24: in the step in which an attempt ends, the request backs off (or, with
\* max_retries 0, raises HttpError with http_status 0 and the stderr) exactly
\* when the return code is not 0 or the stderr is not empty; backing off hooks
\* one timer of 1000 ms and no process, and no other step makes it back off;
\* while the request waits for it no process is hooked; and the attempt made
\* after a failed one is made in a step in which a timer fires, after a sleep
\* of 1000 ms, with max_retries one less.
C24_FailureBacksOffOnce ==
    [][ \A t \in (DOMAIN tasks) \cap (DOMAIN tasks') :
          tasks[t].coro = "http" =>
          LET fr == tasks[t].frame
              fr2 == tasks'[t].frame
              ends == /\ Len(fr2.delivered) = Len(fr.delivered) + 1
                      /\ fr2.delivered[Len(fr2.delivered)].n # -1
              failed == fr2.return_code # 0 \/ fr2.stderr # <<>>
              backs_off == tasks'[t].status = "suspended" /\ fr2.at = "backoff"
              gives_up == /\ tasks'[t].status = "raised"
                          /\ tasks'[t].exc = HttpError(fr2.return_code, 0, fr2.stderr)
              hooks_process == Len(fr2.attempts) = Len(fr.attempts) + 1
          IN  /\ ends => (failed <=> (backs_off \/ gives_up))
              /\ (ends /\ failed) =>
                    IF fr.max_retries > 0
                    THEN /\ backs_off
                         /\ NewTimers = {tasks'[t].waiting}
                         /\ hooks'[tasks'[t].waiting] = Hook("timer", BackoffMs)
                         /\ ProcessHooks' = {}
                         /\ fr2.max_retries = fr.max_retries
                    ELSE gives_up /\ NewTimers = {}
              /\ (backs_off /\ ~ (ends /\ failed)) => tasks'[t] = tasks[t]
              /\ (tasks[t].status = "suspended" /\ fr.at = "backoff") =>
                    /\ ProcessHooks = {}
                    /\ hooks[tasks[t].waiting] = Hook("timer", BackoffMs)
              /\ (hooks_process /\ fr.attempts # <<>> /\ TransportFailed(fr.answer)) =>
                    /\ fr2.attempts[Len(fr2.attempts)] = fr.attempts[Len(fr.attempts)] - 1
                    /\ fr.at \in {"backoff", "gate"}
                    /\ fr.slept = BackoffMs
                    /\ tasks[t].waiting \in (DOMAIN hooks) \ (DOMAIN hooks')
                    /\ hooks[tasks[t].waiting].kind = "timer"
      ]_vars

\* an attempt that exited 0 with a good status line on stdout but with text on
\* stderr was taken for a failure: the request slept 1000 ms and has hooked
\* its second attempt with max_retries 1 instead of 2
C24_Witness ==
    \E t \in Requests :
        /\ tasks[t].status = "suspended"
        /\ Frame(t).at = "process"
        /\ Frame(t).attempts = <<2, 1>>
        /\ Frame(t).failures = 1
        /\ Frame(t).answer.rc = 0
        /\ Frame(t).answer.err = <<"warn">>
        /\ Frame(t).slept = BackoffMs
        /\ Frame(t).future \in ProcessHooks

----------------------------------------------------------------------------
\* The gate under a host that fires every timer (SpecGate): one request, and
\* one coroutine that only sleeps, started in either order.

Sleepers == {t \in TaskIds : tasks[t].coro = "script"}

\* what the process answers here: a success or a failure of the transport
GateTransport == {Answer(200, <<>>, -1, <<"hello">>), Failure(1, <<>>, <<>>)}

GateRequestStart ==
    /\ Requests = {}
    /\ \E max_retries \in 0..MaxRetries :
         Becomes(Host(create_task(State,
                        Coroutine("http", "http_request", max_retries, 0), TRUE)))

SleeperStart ==
    /\ Sleepers = {}
    /\ Becomes(Host(create_task(State, Coroutine("script", "slow", 1, 0), TRUE)))

\* the timer with key f can fire.  A timer of the gate is fired while ids are
\* left or the descriptors suffice: past MaxId the descriptors only rise, so
\* that the gate's loop is cut only where its wait goes on for ever.
GateTimerDue(f) ==
    /\ f \in DOMAIN hooks
    /\ hooks[f].kind = "timer"
    /\ hooks[f].ms = GateSleepMs => (next_id <= MaxId \/ free_fds >= FdGate)

GateTimerFires(f) ==
    /\ GateTimerDue(f)
    /\ Becomes(Host(weechat_task_cb([State EXCEPT !.hooks = Pop(@, f)], f, TimerArgs)))

GateTimers == \E f \in DOMAIN hooks : GateTimerFires(f)

GateProcessExit ==
    \E f \in DOMAIN hooks :
        /\ hooks[f].kind = "process"
        /\ \E res \in GateTransport :
             LET args == ProcessArgs(res.rc, res.out, res.err)
             IN  Becomes(Host(weechat_task_cb(
                     Delivered(Answered([State EXCEPT !.hooks = Pop(@, f)], f, res),
                               f, args),
                     f, args)))

FdRise ==
    /\ free_fds < FdGate
    /\ free_fds' = FdGate
    /\ UNCHANGED <<active_tasks, active_responses, tasks, hooks, next_id,
                   served, escaped, uncaught_errors, printed, conversation, buffers,
                       workspaces, input>>

FdDrop ==
    /\ free_fds >= FdGate
    /\ next_id <= MaxId
    /\ free_fds' = FdGate - 1
    /\ UNCHANGED <<active_tasks, active_responses, tasks, hooks, next_id,
                   served, escaped, uncaught_errors, printed, conversation, buffers,
                       workspaces, input>>

NextGate ==
    GateRequestStart \/ SleeperStart \/ GateTimers \/ GateProcessExit \/ FdRise \/ FdDrop

\* the timers a coroutine of the given kind is suspended on that can fire
\* (at most one), and the steps in which such a timer fires: only
\* GateTimerFires(f) takes a timer f out of hooks
GateTimersOf(coro) ==
    {f \in DOMAIN hooks : /\ GateTimerDue(f)
                          /\ f \in DOMAIN active_tasks
                          /\ tasks[active_tasks[f]].coro = coro}
GateTimerFired(coro) == \E f \in GateTimersOf(coro) : f \notin DOMAIN hooks'

\* the host fires every timer that is hooked: weak fairness of GateTimerFires
\* for the timer of each coroutine, written out (a timer that can fire can
\* always fire, and firing it changes hooks)
GateFair(coro) ==
    \/ []<>(GateTimersOf(coro) = {})
    \/ []<><<GateTimerFired(coro)>>_vars
GateFairness == GateFair("http") /\ GateFair("script")

SpecGate == Init /\ [][NextGate]_vars /\ GateFairness

GateWaiting == \E t \in Requests : tasks[t].status = "suspended" /\ Frame(t).at = "gate"
GateHooked ==
    \E t \in Requests :
        /\ tasks[t].status = "suspended"
        /\ Frame(t).at = "process"
        /\ Frame(t).future \in ProcessHooks
Sleeping == \E t \in Sleepers : tasks[t].status = "suspended"
Slept == \E t \in Sleepers : tasks[t].status = "returned"

\* C25: if from some point on at least 10 descriptors are available, a request
\* that waits at the gate eventually has its process hooked; and a coroutine
\* suspended on its own timer is always eventually resumed and returns,
\* whether or not the request is waiting at the gate.
C25_GateOpens ==
    /\ (<>[](free_fds >= FdGate)) => (GateWaiting ~> GateHooked)
    /\ Sleeping ~> Slept

\* the request waited at the gate, the sleeper was started after that and has
\* returned, and the request, after two waits, has hooked its process
C25_Witness ==
    \E t \in Requests : \E u \in Sleepers :
        /\ GateHooked
        /\ Len(Frame(t).attempts) = 1
        /\ u > Frame(t).future + 1
        /\ tasks[u].status = "returned"
        /\ next_id >= Frame(t).future + 5

----------------------------------------------------------------------------
\* /slack debug error [arg] (SpecDebug).

\* uncaught errors recorded in one run
MaxErrors == 3

\* str.isdecimal(): at least one character and every character a decimal digit
isdecimal(str) == str # <<>> /\ \A i \in 1..Len(str) : str[i] \in DOMAIN Digit

\* the records whose id is `id`, oldest first: the list comprehension
RECURSIVE errors_with_id(_, _, _)
errors_with_id(errors, id, i) ==
    IF i > Len(errors) THEN <<>>
    ELSE (IF errors[i].id = id THEN <<i>> ELSE <<>>) \o errors_with_id(errors, id, i + 1)

\* def print_uncaught_error(error, detailed, options), without -data
print_uncaught_error(error, detailed) ==
    <<Line("record", error.id, error.time)>>
    \o (IF detailed THEN <<Line("traceback", <<error.exception>>, 0)>> ELSE <<>>)

DefaultErrors == 5

RECURSIVE print_uncaught_errors(_)
print_uncaught_errors(errors) ==
    IF errors = <<>> THEN <<>>
    ELSE print_uncaught_error(Head(errors), FALSE) \o print_uncaught_errors(Tail(errors))

\* the branch args[0] == "errors" of command_slack_debug
debug_errors(s, args) ==
    LET num_arg == IF Len(args) > 1 /\ isdecimal(args[2]) THEN int(args[2]).n
                   ELSE DefaultErrors
        num == IF num_arg < Len(s.uncaught_errors) THEN num_arg ELSE Len(s.uncaught_errors)
    IN  Returned([s EXCEPT !.printed =
            Output(Tail(args),
                   <<Line("last_errors", <<>>, num)>>
                   \o print_uncaught_errors(slice_last(s.uncaught_errors, - num)),
                   FALSE)])

\* the branch args[0] == "error" of command_slack_debug: `args` is the whole
\* list, "error" first
debug_error(s, args) ==
    LET errors == s.uncaught_errors
        Prints(lines) == Returned([s EXCEPT !.printed = Output(Tail(args), lines, FALSE)])
        Fails(exc) == Propagated([s EXCEPT !.printed = Output(Tail(args), <<>>, TRUE)], exc)
    IN
    IF Len(args) > 1
    THEN IF isdecimal(args[2]) /\ args[2] # <<"0">>
         THEN LET num == int(args[2]).n
              IN  IF num > Len(errors)
                  THEN Prints(<<Line("only", <<>>, Len(errors))>>)
                  ELSE LET at == subscript(errors, - num)
                       IN  IF ~ at.ok THEN Fails(IndexError)
                           ELSE Prints(<<Line("error_id", errors[at.index].id, 0)>>
                                       \o print_uncaught_error(errors[at.index], TRUE))
         ELSE LET found == errors_with_id(errors, args[2], 1)
              IN  IF found = <<>>
                  THEN Prints(<<Line("not_found", args[2], 0)>>)
                  ELSE Prints(<<Line("error_id", errors[found[1]].id, 0)>>
                              \o print_uncaught_error(errors[found[1]], TRUE))
    ELSE IF errors = <<>>
    THEN Prints(<<Line("no_errors", <<>>, 0)>>)
    ELSE Prints(<<Line("last_error", <<>>, 0)>>
                \o print_uncaught_error(errors[subscript(errors, -1).index], TRUE))

\* command_slack_debug(buffer, args, options): `args` is the whole list, the
\* subcommand first
command_slack_debug(s, args) ==
    IF args[1] = <<"e", "r", "r", "o", "r", "s">> THEN debug_errors(s, args)
    ELSE debug_error(s, args)

\* str(uuid4()) of the n-th id drawn
Uuid(n) == <<"e", "-">> \o Digits(n)

\* the record of an exception a final task did not handle is appended to the
\* list: {id, timestamp, exception}
UncaughtError(id, time, exception) == [id |-> id, time |-> time, exception |-> exception]

ErrorRecorded ==
    /\ Len(uncaught_errors) < MaxErrors
    /\ \E exception \in {"HttpError", "SlackApiError"} :
         Becomes([Allocated(State) EXCEPT !.uncaught_errors =
                    Append(@, UncaughtError(Uuid(Future(State)), Future(State), exception))])

\* what the user can type after "/slack debug error": nothing, a number, a
\* number written with a leading zero, zero, an id, other text
DebugArgs ==
    {<<>>, <<<<>>>>, <<<<"0">>>>, <<<<"0", "0">>>>, <<<<"x">>>>}
    \cup {<<Digits(k)>> : k \in 1..(MaxErrors + 1)}
    \cup {<<<<"0">> \o Digits(k)>> : k \in 1..MaxErrors}
    \cup {<<Uuid(k)>> : k \in 1..(MaxErrors + 1)}

\* the user types the command; once a command has raised into the host no
\* further command is modelled
DebugError ==
    /\ escaped = 0
    /\ \E args \in DebugArgs :
        Becomes(Host(command_slack_debug(State, <<<<"e", "r", "r", "o", "r">>>> \o args)))

NextDebug == ErrorRecorded \/ DebugError

SpecDebug == Init /\ [][NextDebug]_vars

\* the records a command's output shows
RecordsShown(out) ==
    {i \in 1..Len(out.lines) : out.lines[i].kind = "record"}

\* the output shows the record `error` and no other
Shows(out, error) ==
    /\ ~ out.raised
    /\ \E i \in 1..Len(out.lines) :
         /\ RecordsShown(out) = {i}
         /\ out.lines[i].id = error.id
         /\ out.lines[i].n = error.time

\* the output is the one line `kind` and no record
Reports(out, kind) ==
    /\ ~ out.raised
    /\ Len(out.lines) = 1
    /\ out.lines[1].kind = kind

\* an argument is an ordinal when it is a decimal numeral of a number >= 1
Ordinal(arg) == isdecimal(arg) /\ int(arg).n >= 1

\* C26: after /slack debug error K with 1 <= K <= the number of recorded
\* errors the K-th most recent record is shown; with a greater K an error is
\* reported and no record shown; with an argument that is no ordinal the
\* first record with that id is shown or "not found" is reported; with no
\* argument the most recent record is shown or "no errors have occurred".
C26_DebugErrorQueries ==
    [][ printed' # printed =>
          LET out == printed'
              n == Len(uncaught_errors)
              with_id == {i \in 1..n : uncaught_errors[i].id = out.args[1]}
          IN  /\ uncaught_errors' = uncaught_errors
              /\ IF out.args = <<>>
                 THEN IF n = 0 THEN Reports(out, "no_errors")
                      ELSE Shows(out, uncaught_errors[n])
                 ELSE IF Ordinal(out.args[1])
                 THEN IF int(out.args[1]).n <= n
                      THEN Shows(out, uncaught_errors[n - int(out.args[1]).n + 1])
                      ELSE Reports(out, "only")
                 ELSE IF with_id = {} THEN Reports(out, "not_found")
                      ELSE Shows(out, uncaught_errors[Min(with_id)])
    ]_vars

----------------------------------------------------------------------------
\* The registry of suspended tasks (Spec, SpecHttp).

\* the Future ids task t is registered under
KeysOf(t) == {k \in DOMAIN active_tasks : active_tasks[k] = t}

\* C27: every suspended task is the value of exactly one key of active_tasks,
\* and no task whose coroutine has finished is a value of active_tasks.
C27_RegisteredOnce ==
    \A t \in TaskIds :
        /\ tasks[t].status = "suspended" => Cardinality(KeysOf(t)) = 1
        /\ Finished(t) => KeysOf(t) = {}

----------------------------------------------------------------------------
\* One conversation and the host calling its coroutines (SpecConv).

\* host-level calls of the conversation's coroutines in one run
MaxCalls == 2
\* Future ids used up before the transport stops failing
MaxFailing == 4

\* what the transport answers a fetch with: a history of one message, a
\* history whose second message cannot be rendered, an error status, a
\* failure of the process
ConvTransport ==
    { Answer(200, <<>>, -1, <<"m">>),
      Answer(200, <<>>, -1, <<"m", "x">>),
      Answer(404, <<>>, -1, <<"not", " ", "found">>),
      Failure(1, <<>>, <<>>) }

InitConv ==
    /\ active_tasks = EmptyMap
    /\ active_responses = EmptyMap
    /\ tasks = EmptyMap
    /\ hooks = EmptyMap
    /\ next_id = 1
    /\ free_fds = 10
    /\ served = EmptyMap
    /\ escaped = 0
    /\ uncaught_errors = <<>>
    /\ printed = NoCommand
    /\ conversation \in {SlackConversation("channel"), SlackConversation("mpim")}
    /\ buffers = <<>>
    /\ workspaces = EmptyMap
    /\ input = InputLine(<<>>, 0)

\* the host runs a coroutine of the conversation as a final task
ConvCall(prog) == Host(create_task(State, Coroutine("conversation", prog, 0, 0), TRUE))

\* the workspace opens the conversation
OpenBuffer ==
    /\ Cardinality(TopTasks) < MaxCalls
    /\ Becomes(ConvCall("open_buffer"))

\* the history is asked for
FillHistory ==
    /\ Cardinality(TopTasks) < MaxCalls
    /\ Becomes(ConvCall("fill_history"))

\* the user switches to the conversation's buffer
BufferSwitchedTo ==
    /\ Cardinality(TopTasks) < MaxCalls
    /\ Becomes(ConvCall("buffer_switched_to"))

\* the user closes a buffer of the conversation: def _buffer_close_cb
BufferClosed ==
    \E i \in 1..Len(buffers) :
        /\ buffers' = SubSeq(buffers, 1, i - 1) \o SubSeq(buffers, i + 1, Len(buffers))
        /\ conversation' = [conversation EXCEPT !.buffer_pointer = 0,
                                                !.history_filled = FALSE]
        /\ UNCHANGED <<active_tasks, active_responses, tasks, hooks, next_id, free_fds,
                       served, escaped, uncaught_errors, printed, workspaces, input>>

\* the process of a fetch ends: the callback gets all it printed at once.
\* The transport fails only while few Future ids are used up.
ConvProcessExit ==
    \E f \in DOMAIN hooks :
        /\ hooks[f].kind = "process"
        /\ \E res \in ConvTransport :
             /\ TransportFailed(res) => next_id <= MaxFailing
             /\ Becomes(Host(weechat_task_cb([State EXCEPT !.hooks = Pop(@, f)], f,
                                          ProcessArgs(res.rc, res.out, res.err))))

\* the timer of a sleep before a retry fires
ConvTimerFires ==
    \E f \in DOMAIN hooks :
        /\ hooks[f].kind = "timer"
        /\ Becomes(Host(weechat_task_cb([State EXCEPT !.hooks = Pop(@, f)], f, TimerArgs)))

NextConv ==
    OpenBuffer \/ FillHistory \/ BufferSwitchedTo \/ BufferClosed
    \/ ConvProcessExit \/ ConvTimerFires

SpecConv == InitConv /\ [][NextConv]_vars

\* C28: the conversation never has two host buffers open: buffer_new /
\* buffer_new_props is not called a second time before the buffer is closed.
C28_OneBuffer == Len(buffers) <= 1

\* the fill_history calls that have not ended
FillingHistory ==
    {t \in TaskIds : tasks[t].prog = "fill_history" /\ ~ Finished(t)}

\* C29: history_pending is true only while a fill_history call is in
\* progress: a call that ended, by returning or by an exception of the fetch
\* or of the rendering, has left history_pending and is_loading false.
C29_PendingOnlyWhileFilling ==
    FillingHistory = {} =>
        /\ ~ conversation.history_pending
        /\ ~ conversation.is_loading

\* the fill_history calls made in this step, by the host or by the gather
\* of buffer_switched_to
NewFillHistory ==
    {t \in (DOMAIN tasks') \ (DOMAIN tasks) : tasks'[t].prog = "fill_history"}

\* C30: never are two fill_history calls inside fetch_conversations_history,
\* and a fill_history call made while history_pending or history_filled is
\* true returns in the same step with no fetch issued and no message printed.
C30_OneHistoryFetch ==
    /\ [](Cardinality(conversation.fetching) <= 1)
    /\ [][ \A t \in NewFillHistory :
             (conversation.history_pending \/ conversation.history_filled) =>
                 /\ tasks'[t].status = "returned"
                 /\ tasks'[t].result = None
                 /\ tasks'[t].waiting = 0
                 /\ conversation'.fetching = conversation.fetching
                 /\ conversation'.printing = conversation.printing
                 /\ conversation'._messages = conversation._messages
         ]_vars

\* a fill_history call has returned at the guard while another call's fetch
\* is in flight
C30_Witness ==
    \E t \in conversation.skipped : \E u \in conversation.fetching :
        /\ t # u
        /\ tasks[t].status = "returned"
        /\ tasks[u].status = "suspended"
        /\ tasks[u].stage = "history"
        /\ conversation.history_pending

\* C31: once a fill_history call that began with the buffer open has
\* returned, history_filled is true only if the conversation has a buffer:
\* a close during the call leaves the history to be filled again.
C31_FilledOnlyWithBuffer ==
    \A t \in conversation.with_buffer :
        (tasks[t].status = "returned" /\ conversation.buffer_pointer = 0) =>
            ~ conversation.history_filled

(***************************************************************************)
(* The message-hash table of a conversation: SlackConversationMessageHashes *)
(* is a dict from timestamp to short hash with the attribute _inverse_map.  *)
(***************************************************************************)

MaxTs == 6      \* the timestamps are 0 .. MaxTs - 1
FullLen == 5    \* the length of a full hash (40 hexadecimal digits in sha1)
HashLen == 3    \* hash_len = 3

Timestamps == 0 .. MaxTs - 1

\* The digits of n, most significant first, on len places.
RECURSIVE Bits(_, _)
Bits(n, len) ==
    IF len = 0 THEN <<>>
    ELSE Append(Bits(n \div 2, len - 1), IF n % 2 = 1 THEN "1" ELSE "0")

\* sha1_hex(str(ts)): an injective function of the timestamps in play, with
\* digits over two values so that prefixes collide.
ts_hash(ts) == Bits(ts, FullLen)

\* string[:n] and string[:-1] of Python
Slice(string, n) == SubSeq(string, 1, IF n < Len(string) THEN n ELSE Len(string))

ButLast(string) == SubSeq(string, 1, Len(string) - 1)

DictPut(map, key, value) == [k \in DOMAIN map \cup {key} |-> IF k = key THEN value ELSE map[k]]

_setitem(hashes, key, value) == [hashes EXCEPT !.dict = DictPut(@, key, value)]

\* The first loop of __missing__: the hash grows while an existing hash
\* starts with it.
RECURSIVE free_hash_len(_, _, _)
free_hash_len(hashes, full_hash, hash_len) ==
    IF \E existing_hash \in DOMAIN hashes._inverse_map :
           startswith(existing_hash, Slice(full_hash, hash_len))
    THEN free_hash_len(hashes, full_hash, hash_len + 1)
    ELSE hash_len

\* The second loop: both hashes grow while they are equal.
RECURSIVE distinct_hash_len(_, _, _)
distinct_hash_len(full_hash, other_full_hash, hash_len) ==
    IF Slice(full_hash, hash_len) = Slice(other_full_hash, hash_len)
    THEN distinct_hash_len(full_hash, other_full_hash, hash_len + 1)
    ELSE hash_len

\* The branch of __missing__ taken when the hash less its last digit is
\* stored: that timestamp gets a longer hash (its message is rendered again,
\* which reads the table and does not change it).
lengthen_other(hashes, full_hash, hash_len) ==
    LET short_hash == Slice(full_hash, hash_len)
        ts_with_same_hash == hashes._inverse_map[ButLast(short_hash)]
        popped == [hashes EXCEPT !._inverse_map = Pop(@, ButLast(short_hash))]
        other_full_hash == ts_hash(ts_with_same_hash)
        len == distinct_hash_len(full_hash, other_full_hash, hash_len)
        other_short_hash == Slice(other_full_hash, len)
        set == _setitem(popped, ts_with_same_hash, other_short_hash)
    IN  [hashes |-> [set EXCEPT !._inverse_map = DictPut(@, other_short_hash, ts_with_same_hash)],
         hash_len |-> len]

__missing__(hashes, key) ==
    LET full_hash == ts_hash(key)
        hash_len == free_hash_len(hashes, full_hash, HashLen)
        short_hash == Slice(full_hash, hash_len)
        other == IF ButLast(short_hash) \in DOMAIN hashes._inverse_map
                 THEN lengthen_other(hashes, full_hash, hash_len)
                 ELSE [hashes |-> hashes, hash_len |-> hash_len]
        final_hash == Slice(full_hash, other.hash_len)
    IN  [_setitem(other.hashes, key, final_hash)
            EXCEPT !._inverse_map = DictPut(@, final_hash, key)]

delitem_keep_inverse(hashes, key) ==
    [hashes EXCEPT !.dict = Pop(@, key)]

__delitem__(hashes, key) ==
    [dict |-> Pop(hashes.dict, key),
     _inverse_map |-> IF key \in DOMAIN hashes.dict
                      THEN Pop(hashes._inverse_map, hashes.dict[key])
                      ELSE hashes._inverse_map]

\* delete_message, as far as the table goes: the rest marks the message
\* deleted and renders it again.
delete_message(s, ts) ==
    IF ts \in DOMAIN s.conversation.message_hashes.dict
    THEN [s EXCEPT !.conversation.message_hashes = __delitem__(@, ts)]
    ELSE s

\* message_hashes[ts] for a timestamp that is not stored yet
HashLookup ==
    \E ts \in Timestamps :
        /\ ts \notin DOMAIN conversation.message_hashes.dict
        /\ Becomes([State EXCEPT !.conversation.message_hashes = __missing__(@, ts)])

DeleteMessage ==
    \E ts \in Timestamps :
        /\ conversation' = delete_message(State, ts).conversation
        /\ UNCHANGED <<active_tasks, active_responses, tasks, hooks, next_id, free_fds,
                       served, escaped, uncaught_errors, printed, buffers,
                       workspaces, input>>

NextHashes == HashLookup \/ DeleteMessage

SpecHashes == Init /\ [][NextHashes]_vars

\* C32: every stored short hash is a prefix of at least three digits of the
\* full hash of its timestamp, no stored short hash starts with another one,
\* and _inverse_map is exactly the inverse of the table.
C32_HashTable ==
    LET dict == conversation.message_hashes.dict
        inverse == conversation.message_hashes._inverse_map
    IN  /\ \A ts \in DOMAIN dict :
            /\ startswith(ts_hash(ts), dict[ts])
            /\ Len(dict[ts]) >= HashLen
            /\ dict[ts] \in DOMAIN inverse
            /\ inverse[dict[ts]] = ts
        /\ \A ts \in DOMAIN dict : \A other \in DOMAIN dict \ {ts} :
            ~ startswith(dict[other], dict[ts])
        /\ DOMAIN inverse = {dict[ts] : ts \in DOMAIN dict}
        /\ Cardinality(DOMAIN inverse) = Cardinality(DOMAIN dict)

\* A timestamp keeps a lengthened hash after the colliding one was deleted,
\* next to other stored timestamps.
C32_Witness ==
    LET dict == conversation.message_hashes.dict
    IN  /\ Cardinality(DOMAIN dict) >= 3
        /\ \E ts \in DOMAIN dict :
            /\ Len(dict[ts]) > HashLen
            /\ \A other \in DOMAIN dict \ {ts} :
                Slice(ts_hash(other), HashLen) # Slice(ts_hash(ts), HashLen)

(***************************************************************************)
(* The workspace commands: /slack workspace add | rename | del and         *)
(* /slack connect | disconnect over shared.workspaces.                     *)
(***************************************************************************)

MaxConnects == 2    \* connect coroutines started per workspace

WorkspaceNames == {<<"a">>, <<"b">>, <<"c">>}

\* SlackWorkspace(name); connects counts the connect coroutines started
SlackWorkspace(name) ==
    [name |-> name, is_connected |-> FALSE, is_connecting |-> FALSE, connects |-> 0]

\* the command begins with an empty core buffer; weechat.prnt / print_error
\* append a line
Ran(s, args) == [s EXCEPT !.printed = Output(args, <<>>, FALSE)]

prnt(s, kind, name) == [s EXCEPT !.printed.lines = Append(@, Line(kind, name, 0))]

\* run_async(workspace.connect()): the coroutine runs up to its first await
\* and marks the workspace as connecting
connect(s, name) ==
    [s EXCEPT !.workspaces[name].connects = @ + 1,
              !.workspaces[name].is_connecting = TRUE]

\* workspace.disconnect()
disconnect(s, name) ==
    [s EXCEPT !.workspaces[name].is_connected = FALSE]

workspace_connect(s, name) ==
    IF s.workspaces[name].is_connected THEN prnt(s, "already_connected", name)
    ELSE IF s.workspaces[name].is_connecting THEN prnt(s, "already_connecting", name)
    ELSE connect(s, name)

workspace_disconnect(s, name) ==
    IF ~ s.workspaces[name].is_connected THEN prnt(s, "not_connected", name)
    ELSE disconnect(s, name)

\* for workspace in shared.workspaces.values(): run_async(workspace.connect())
RECURSIVE connect_all(_, _)
connect_all(s, names) ==
    IF names = {} THEN s
    ELSE LET name == CHOOSE n \in names : TRUE
         IN  connect_all(connect(s, name), names \ {name})

RECURSIVE disconnect_all(_, _)
disconnect_all(s, names) ==
    IF names = {} THEN s
    ELSE LET name == CHOOSE n \in names : TRUE
         IN  disconnect_all(disconnect(s, name), names \ {name})

\* for arg in args: of command_slack_connect
RECURSIVE connect_named(_, _)
connect_named(s, args) ==
    IF args = <<>> THEN s
    ELSE connect_named(IF Head(args) \notin DOMAIN s.workspaces
                       THEN prnt(s, "not_found", Head(args))
                       ELSE workspace_connect(s, Head(args)),
                       Tail(args))

RECURSIVE disconnect_named(_, _)
disconnect_named(s, args) ==
    IF args = <<>> THEN s
    ELSE disconnect_named(IF Head(args) \notin DOMAIN s.workspaces
                          THEN prnt(s, "not_found", Head(args))
                          ELSE workspace_disconnect(s, Head(args)),
                          Tail(args))

\* command_slack_connect(buffer, args, options): args is the split list
\* (<<"">> when no name is given), all says whether -all is an option, and
\* buffer is the name of the workspace of the current buffer's conversation
\* ("" in a buffer that has none)
command_slack_connect(s, buffer, args, all) ==
    IF all THEN connect_all(Ran(s, args), DOMAIN s.workspaces)
    ELSE IF args[1] # <<>> THEN connect_named(Ran(s, args), args)
    ELSE IF buffer \in DOMAIN s.workspaces THEN workspace_connect(Ran(s, args), buffer)
    ELSE Ran(s, args)

command_slack_disconnect(s, buffer, args, all) ==
    IF all THEN disconnect_all(Ran(s, args), DOMAIN s.workspaces)
    ELSE IF args[1] # <<>> THEN disconnect_named(Ran(s, args), args)
    ELSE IF buffer \in DOMAIN s.workspaces THEN workspace_disconnect(Ran(s, args), buffer)
    ELSE Ran(s, args)

command_slack_workspace_add(s, args) ==
    LET name == args[1]
    IN  IF name \in DOMAIN s.workspaces
        THEN prnt(Ran(s, args), "already_exists", name)
        ELSE prnt([Ran(s, args) EXCEPT !.workspaces = DictPut(@, name, SlackWorkspace(name))],
                  "added", name)

command_slack_workspace_rename(s, args) ==
    LET old_name == args[1]
        new_name == args[2]
    IN  IF old_name \notin DOMAIN s.workspaces
        THEN prnt(Ran(s, args), "rename_not_found", old_name)
        ELSE LET workspace == [s.workspaces[old_name] EXCEPT !.name = new_name]
                 set == DictPut(s.workspaces, new_name, workspace)
             IN  prnt([Ran(s, args) EXCEPT !.workspaces = Pop(set, old_name)],
                      "renamed", old_name)

workspace_del_unchecked(s, args) ==
    LET name == args[1]
    IN  IF name \notin DOMAIN s.workspaces
        THEN prnt(Ran(s, args), "del_not_found", name)
        ELSE prnt([Ran(s, args) EXCEPT !.workspaces = Pop(@, name)], "deleted", name)

command_slack_workspace_del(s, args) ==
    LET name == args[1]
    IN  IF name \notin DOMAIN s.workspaces
        THEN prnt(Ran(s, args), "del_not_found", name)
        ELSE IF s.workspaces[name].is_connected
        THEN prnt(Ran(s, args), "del_connected", name)
        ELSE prnt([Ran(s, args) EXCEPT !.workspaces = Pop(@, name)], "deleted", name)

ConnectArgs == {<<<<>>>>, <<<<"a">>>>, <<<<"c">>>>, <<<<"a">>, <<"b">>>>, <<<<"b">>, <<"b">>>>}

ConnectBuffers == {<<"a">>, <<>>}

\* The wrapper of weechat_command calls the command only with min_args
\* arguments or more.
Arguments(n) ==
    IF n = 1 THEN {<<name>> : name \in WorkspaceNames}
    ELSE {<<old_name, new_name>> : old_name \in WorkspaceNames, new_name \in WorkspaceNames}

SlackWorkspaceAdd ==
    \E args \in Arguments(1) :
        /\ Len(args) >= 1
        /\ Becomes(command_slack_workspace_add(State, args))

SlackWorkspaceRename ==
    \E args \in Arguments(2) :
        /\ Len(args) >= 2
        /\ Becomes(command_slack_workspace_rename(State, args))

SlackWorkspaceDel ==
    \E args \in Arguments(1) :
        /\ Len(args) >= 1
        /\ Becomes(command_slack_workspace_del(State, args))

SlackConnect ==
    /\ \A name \in DOMAIN workspaces : workspaces[name].connects < MaxConnects
    /\ \E buffer \in ConnectBuffers, args \in ConnectArgs, all \in BOOLEAN :
        Becomes(command_slack_connect(State, buffer, args, all))

SlackDisconnect ==
    \E buffer \in ConnectBuffers, args \in ConnectArgs, all \in BOOLEAN :
        /\ workspaces' = command_slack_disconnect(State, buffer, args, all).workspaces
        /\ printed' = command_slack_disconnect(State, buffer, args, all).printed
        /\ UNCHANGED <<active_tasks, active_responses, tasks, hooks, next_id, free_fds,
                       served, escaped, uncaught_errors, conversation, buffers, input>>

\* the connect coroutine of a workspace ends: connected, or failed
ConnectFinished ==
    \E name \in DOMAIN workspaces, ok \in BOOLEAN :
        /\ workspaces[name].is_connecting
        /\ Becomes([State EXCEPT !.workspaces[name].is_connecting = FALSE,
                                 !.workspaces[name].is_connected = ok \/ @])

NextWorkspace ==
    \/ SlackWorkspaceAdd
    \/ SlackWorkspaceRename
    \/ SlackWorkspaceDel
    \/ SlackConnect
    \/ SlackDisconnect
    \/ ConnectFinished

SpecWorkspace == Init /\ [][NextWorkspace]_vars

\* C33: a rename that finds OLD leaves the workspace registered under NEW,
\* no entry under OLD, every other entry as it was and as many workspaces
\* registered as before.
C33_Rename ==
    [][\A old_name \in WorkspaceNames, new_name \in WorkspaceNames :
          ( /\ old_name \in DOMAIN workspaces
            /\ Becomes(command_slack_workspace_rename(State, <<old_name, new_name>>)) )
          => /\ new_name \in DOMAIN workspaces'
             /\ workspaces'[new_name] = [workspaces[old_name] EXCEPT !.name = new_name]
             /\ old_name # new_name => old_name \notin DOMAIN workspaces'
             /\ \A other \in WorkspaceNames \ {old_name, new_name} :
                   /\ other \in DOMAIN workspaces' <=> other \in DOMAIN workspaces
                   /\ other \in DOMAIN workspaces => workspaces'[other] = workspaces[other]
             /\ Cardinality(DOMAIN workspaces') = Cardinality(DOMAIN workspaces)
      ]_vars

Busy(workspace) == workspace.is_connected \/ workspace.is_connecting

\* C34: no form of /slack connect starts the connect coroutine of a
\* workspace that is connected or connecting.
C34_ConnectOnlyIdle ==
    [][\A buffer \in ConnectBuffers, args \in ConnectArgs, all \in BOOLEAN :
          Becomes(command_slack_connect(State, buffer, args, all))
          => \A name \in DOMAIN workspaces :
                Busy(workspaces[name]) =>
                    /\ workspaces'[name].connects = workspaces[name].connects
                    /\ ( \/ all
                         \/ \E i \in 1..Len(args) : args[i] = name
                         \/ args[1] = <<>> /\ buffer = name )
                       => \E i \in 1..Len(printed'.lines) :
                             /\ printed'.lines[i].id = name
                             /\ printed'.lines[i].kind \in
                                    {"already_connected", "already_connecting"}
      ]_vars

\* C35: /slack workspace del leaves shared.workspaces unchanged when NAME
\* is unknown or connected, and removes exactly the entry NAME otherwise.
C35_DelNotConnected ==
    [][\A name \in WorkspaceNames :
          Becomes(command_slack_workspace_del(State, <<name>>))
          => IF name \notin DOMAIN workspaces \/ workspaces[name].is_connected
             THEN workspaces' = workspaces
             ELSE workspaces' = Pop(workspaces, name)
      ]_vars

\* the command refused to delete a connected workspace next to another one
C35_Witness ==
    /\ printed.lines # <<>>
    /\ printed.lines[1].kind = "del_connected"
    /\ workspaces[printed.lines[1].id].is_connected
    /\ Cardinality(DOMAIN workspaces) >= 2

(***************************************************************************)
(* /slack debug errors N over shared.uncaught_errors.                      *)
(***************************************************************************)

MaxRecorded == 6    \* uncaught errors recorded

UncaughtErrorRecorded ==
    /\ Len(uncaught_errors) < MaxRecorded
    /\ Becomes([Allocated(State) EXCEPT !.uncaught_errors =
                  Append(@, UncaughtError(Uuid(Future(State)), Future(State), "HttpError"))])

\* what the user can type after "/slack debug errors": nothing, a number,
\* zero, a number written with leading zeros, other text
ErrorsArgs ==
    {<<>>, <<<<>>>>, <<<<"x">>>>, <<<<"0", "0">>>>, <<<<"0", "2">>>>}
    \cup {<<Digits(k)>> : k \in 0..(MaxRecorded + 1)}

DebugErrors ==
    \E args \in ErrorsArgs :
        /\ printed' = Host(command_slack_debug(State,
                              <<<<"e", "r", "r", "o", "r", "s">>>> \o args)).printed
        /\ UNCHANGED <<active_tasks, active_responses, tasks, hooks, next_id, free_fds,
                       served, escaped, uncaught_errors, conversation, buffers,
                       workspaces, input>>

NextErrors == UncaughtErrorRecorded \/ DebugErrors

SpecErrors == Init /\ [][NextErrors]_vars

\* the lines of an output that show a record, in the order printed
RECURSIVE RecordLines(_)
RecordLines(lines) ==
    IF lines = <<>> THEN <<>>
    ELSE (IF Head(lines).kind = "record" THEN <<Head(lines)>> ELSE <<>>)
         \o RecordLines(Tail(lines))

\* C38: /slack debug errors N prints exactly min(N, number of recorded
\* errors) records, N being 5 when no decimal N is given: the most recently
\* recorded ones in recording order, for every N >= 0.
C38_LastErrors ==
    [][\A args \in ErrorsArgs :
          Becomes(Host(command_slack_debug(State,
                          <<<<"e", "r", "r", "o", "r", "s">>>> \o args)))
          => LET n == Len(uncaught_errors)
                 N == IF args # <<>> /\ isdecimal(args[1]) THEN int(args[1]).n ELSE 5
                 count == IF N < n THEN N ELSE n
                 shown == RecordLines(printed'.lines)
             IN  /\ Len(shown) = count
                 /\ \A i \in 1..count :
                       /\ shown[i].id = uncaught_errors[n - count + i].id
                       /\ shown[i].n = uncaught_errors[n - count + i].time
      ]_vars

(***************************************************************************)
(* Nick completion in the input line of a conversation's buffer.           *)
(***************************************************************************)

MaxRequests == 2    \* complete_next requests

\* def input_complete_cb(data, buffer, command)
input_complete_cb(s, command) ==
    LET input_before_cursor == SubSeq(s.input.value, 1, s.input.pos)
        word_index == IF s.conversation.completion_context = "ACTIVE_COMPLETION"
                      THEN -2 ELSE -1
        word_until_cursor ==
            join(slice_last(split(input_before_cursor, <<" ">>), word_index), <<" ">>)
        query == slice_from(word_until_cursor, 1)
        is_first_word == word_until_cursor = input_before_cursor
    IN  IF ~ startswith(word_until_cursor, <<"@">>) THEN Returned(s)
        ELSE IF command = "/input complete_next"
        THEN create_task(s, Coroutine("conversation", "complete_user_next",
                                      [query |-> query, is_first_word |-> is_first_word],
                                      0),
                         TRUE)
        ELSE complete_previous(s, query)

\* what the user types: a nick to complete as the first word and as a later
\* word, a word that is no nick, and a nick with the cursor inside the line
TypedInputs ==
    { InputLine(<<"@", "a">>, 2),
      InputLine(<<"h", "i", " ", "@", "b">>, 5),
      InputLine(<<"h", "i">>, 2),
      InputLine(<<"@", "a", " ", "b">>, 2) }

\* what users.search answers: no user, one, two, an error status
SearchTransport ==
    { Answer(200, <<>>, -1, <<>>),
      Answer(200, <<>>, -1, <<"u">>),
      Answer(200, <<>>, -1, <<"u", "v">>),
      Answer(404, <<>>, -1, <<"not", " ", "found">>) }

\* the conversation with its buffer open and an empty input line
InitCompletion ==
    /\ active_tasks = EmptyMap
    /\ active_responses = EmptyMap
    /\ tasks = EmptyMap
    /\ hooks = EmptyMap
    /\ next_id = 2
    /\ free_fds = 10
    /\ served = EmptyMap
    /\ escaped = 0
    /\ uncaught_errors = <<>>
    /\ printed = NoCommand
    /\ conversation = [SlackConversation("channel") EXCEPT !.buffer_pointer = 1]
    /\ buffers = <<1>>
    /\ workspaces = EmptyMap
    /\ input = InputLine(<<>>, 0)

\* the tasks suspended in the user search
Searching == {t \in DOMAIN tasks : tasks[t].status = "suspended" /\ tasks[t].stage = "search"}

\* the user edits the input line: the completion is over
InputTyped ==
    \E line \in TypedInputs :
        /\ input' = line
        /\ conversation' = [conversation EXCEPT
                               !.completion_context = "NO_COMPLETION",
                               !.cancelled = IF conversation.completion_context =
                                                  "PENDING_COMPLETION"
                                             THEN @ \cup Searching ELSE @]
        /\ UNCHANGED <<active_tasks, active_responses, tasks, hooks, next_id, free_fds,
                       served, escaped, uncaught_errors, printed, buffers, workspaces>>

InputCompleteNext ==
    /\ conversation.buffer_pointer # 0
    /\ Cardinality(TopTasks) < MaxRequests
    /\ Becomes(Host(input_complete_cb(State, "/input complete_next")))

InputCompletePrevious ==
    /\ conversation.buffer_pointer # 0
    /\ Becomes(Host(input_complete_cb(State, "/input complete_previous")))

\* the process of a user search ends
SearchProcessExit ==
    \E f \in DOMAIN hooks :
        /\ hooks[f].kind = "process"
        /\ \E res \in SearchTransport :
             Becomes(Host(weechat_task_cb([State EXCEPT !.hooks = Pop(@, f)], f,
                                          ProcessArgs(res.rc, res.out, res.err))))

NextCompletion ==
    InputTyped \/ InputCompleteNext \/ InputCompletePrevious \/ SearchProcessExit

SpecCompletion == InitCompletion /\ [][NextCompletion]_vars

\* C36: a complete_user_next call that was suspended in the user search
\* when the context was changed away from PENDING_COMPLETION leaves
\* completion_context, completion_values, completion_index and the input
\* line as they are when it is resumed; and a complete_next request that
\* arrives while the context is PENDING_COMPLETION starts no search.
C36_CancelledSearch ==
    [][ /\ \A t \in conversation.cancelled :
              (tasks[t].status = "suspended" /\ tasks'[t].status # "suspended")
              => /\ conversation'.completion_context = conversation.completion_context
                 /\ conversation'.completion_values = conversation.completion_values
                 /\ conversation'.completion_index = conversation.completion_index
                 /\ input' = input
        /\ ( /\ conversation.completion_context = "PENDING_COMPLETION"
             /\ Becomes(Host(input_complete_cb(State, "/input complete_next"))) )
           => /\ DOMAIN hooks' = DOMAIN hooks
              /\ Searching' = Searching
      ]_vars

\* C37: whenever complete_input reads completion_values[completion_index]
\* the index is within the list; a step forward from the last value goes
\* to the first and a step back from the first goes to the last.
C37_IndexInRange ==
    /\ [](conversation.completion_read.reads =>
            /\ 0 <= conversation.completion_read.index
            /\ conversation.completion_read.index < conversation.completion_read.len)
    /\ [][ LET c == conversation
               last == Len(c.completion_values) - 1
           IN  (c.completion_context = "ACTIVE_COMPLETION" /\ c.completion_values # <<>>)
               => /\ ( /\ c.completion_index = last
                       /\ Cardinality(TopTasks) < MaxRequests
                       /\ Becomes(Host(input_complete_cb(State, "/input complete_next"))) )
                     => conversation'.completion_index = 0
                  /\ ( /\ c.completion_index = 0
                       /\ Becomes(Host(input_complete_cb(State, "/input complete_previous"))) )
                     => conversation'.completion_index = last
         ]_vars

\* the value read is the last of two, reached by a step back from the first
C37_Witness ==
    /\ conversation.completion_read.reads
    /\ conversation.completion_read.len = 2
    /\ conversation.completion_read.index = 1
    /\ conversation.completion_index = 1
    /\ Cardinality(DOMAIN tasks) = 1

====
